---- MODULE Spec2Model ----
(***************************************************************************)
(* Connection registry (core/connection_manager.rs), the streaming query   *)
(* executor (core/query_engine.rs) and the commands that drive them        *)
(* (lib.rs) of sqlMate's backend.                                          *)
(*                                                                         *)
(* Two specifications share the variables:                                 *)
(*   Spec        the registry commands connect, test_connection,           *)
(*               switch_database and disconnect, each call run to its      *)
(*               return before the next one starts;                        *)
(*   StreamSpec  streaming queries and cancel_query, interleaved at the    *)
(*               await points and lock acquisitions of the code, over a    *)
(*               registry left by earlier connect calls.                   *)
(***************************************************************************)
EXTENDS Integers, Sequences, FiniteSets, TLC

\* ------------------------------------------------------------------ bounds

\* SSH tunnels established (forwarder tasks spawned) in one behaviour.
MaxTunnels == 2
\* Rows a cursor yields at most before it ends.
MaxRows == 3
\* batch_size of stream_db: 1000 in the source, scaled down.
batch_size == 2

\* Connection ids the registry commands are called with.
ConnIds == {1}
\* Connection ids streaming queries are issued on, registered or not.
StreamConnIds == {1, 2}
QueryIds == {1, 2}

\* ------------------------------------------------------------------ values

\* Option<T>: None is the empty tuple, Some(x) the one-element tuple.
None == <<>>
Some(x) == <<x>>
UnwrapOr(o, d) == IF o = None THEN d ELSE o[1]

DatabaseType == {"Postgres", "MySql", "Sqlite"}

\* HashMap insert and remove on a map kept as a function.
Insert(m, k, v) == [x \in (DOMAIN m) \cup {k} |-> IF x = k THEN v ELSE m[x]]
Remove(m, k) == [x \in (DOMAIN m) \ {k} |-> m[x]]
EmptyMap == [x \in {} |-> 0]

\* The ephemeral port the listener of forwarder task k is bound to.
LocalPort(k) == 50000 + k

\* The fields of ConnectionConfig the registry reads.
MkConfig(id, t, h, p, u, d, ssh) ==
    [id |-> id, db_type |-> t, host |-> h, port |-> p, username |-> u,
     database |-> d, ssh_enabled |-> ssh]

Hosts == {None, Some("10.0.0.5")}
Ports == {Some(6000)}
Usernames == {None, Some("app")}
Databases == {None, Some("main")}
Passwords == {None, Some("pw")}
\* The password that goes with a saved connection: a SQLite file takes none.
PasswordsFor(config) == IF config.db_type = "Sqlite" THEN {None} ELSE {Some("pw")}
\* Names switch_database is asked for.
DbNames == {"other"}

\* Number of the optional fields host, username, database a config leaves out.
Missing(c) ==
    (IF c.host = None THEN 1 ELSE 0) + (IF c.username = None THEN 1 ELSE 0)
        + (IF c.database = None THEN 1 ELSE 0)

\* Configs handed to test_connection: one of host, username and database may
\* be missing.
Configs ==
    {c \in {MkConfig(id, t, h, p, u, d, ssh) :
                id \in ConnIds, t \in DatabaseType, h \in Hosts, p \in Ports,
                u \in Usernames, d \in Databases, ssh \in BOOLEAN} :
        Missing(c) <= 1}

\* Configs handed to connect: a saved connection, with every field filled in.
SavedConfigs == {c \in Configs : Missing(c) = 0}

VARIABLES
    \* ConnectionManager
    postgres_pools, mysql_pools, sqlite_pools, configs, passwords, tunnels,
    \* the forwarder task of every tunnel ever established: "running" | "aborted"
    forwarders,
    \* the registry command that returned last
    last,
    \* AppState.active_queries and the cancellation token of each query
    active_queries, token,
    \* the spawned streaming task of each query
    pc, conn, held, fetched, batch, total_rows, columns_sent,
    \* what the sink received per query_id, in order
    events,
    \* number of events of the query the sink had when cancel_query returned
    cancel_at,
    \* the call the model follows outside the registry and the streams: a
    \* query-engine call with its arguments and result, a command with its
    \* position, or a forwarder task with its sub-worker
    call

registry == <<postgres_pools, mysql_pools, sqlite_pools, configs, passwords, tunnels>>
regvars == <<registry, forwarders, last>>
streamvars == <<active_queries, token, pc, conn, held, fetched, batch,
                total_rows, columns_sent, events, cancel_at>>
vars == <<regvars, streamvars, call>>

\* No query-engine call has returned.
NoCall == [op |-> "none"]

\* ------------------------------------------------------- connection registry

\* The pool PgPoolOptions / MySqlPoolOptions / SqlitePoolOptions builds,
\* known by the connect options it was built with.
MkPool(t, h, p, d) ==
    [db_type |-> t, host |-> h, port |-> p, database |-> d]

\* No pool was built.
NoPool == MkPool("", "", 0, "")

\* What a connect_<dialect> call leaves: its result, the fields it may write
\* and the pool it built.
Out(ok, tn, fw, pg, my, sq, pool) ==
    [ok |-> ok, tunnels |-> tn, forwarders |-> fw, postgres_pools |-> pg,
     mysql_pools |-> my, sqlite_pools |-> sq, pool |-> pool]

\* A connect_<dialect> call that returned Err before it wrote anything.
Untouched ==
    Out(FALSE, tunnels, forwarders, postgres_pools, mysql_pools, sqlite_pools, NoPool)

\* task_handle.abort() on forwarder task k.
Abort(fw, k) == [fw EXCEPT ![k] = "aborted"]

\* establish_ssh_tunnel: fails (host or user missing, TCP, handshake, auth, key
\* file) or binds a listener on an ephemeral port and spawns the forwarder task.
establish_ssh_tunnel(config, tunnel_ok) ==
    IF ~tunnel_ok
    THEN [ok |-> FALSE, tunnel |-> [local_port |-> 0, task_handle |-> 0],
          forwarders |-> forwarders]
    ELSE [ok |-> TRUE,
          tunnel |-> [local_port |-> LocalPort(Len(forwarders) + 1),
                      task_handle |-> Len(forwarders) + 1],
          forwarders |-> Append(forwarders, "running")]

\* final_config of connect_postgres, connect_mysql and test_connection: the
\* tunnel's local end substituted for the database address.
FinalConfig(config, tunnel) ==
    IF config.ssh_enabled
    THEN [config EXCEPT !.host = Some("127.0.0.1"), !.port = Some(tunnel.local_port)]
    ELSE config

\* A connect_postgres that uses the tunnel without keeping it in tunnels.
connect_postgres_TunnelNotKept(config, password, tunnel_ok, pool_ok) ==
    LET est == establish_ssh_tunnel(config, tunnel_ok)
        final_config == FinalConfig(config, est.tunnel)
        fw == IF config.ssh_enabled THEN est.forwarders ELSE forwarders
        pool == MkPool("Postgres",
                       UnwrapOr(final_config.host, "localhost"),
                       UnwrapOr(final_config.port, 5432),
                       UnwrapOr(final_config.database, "postgres"))
    IN  IF config.ssh_enabled /\ ~est.ok
        THEN Untouched
        ELSE IF ~pool_ok
        THEN Out(FALSE, tunnels, fw, postgres_pools, mysql_pools, sqlite_pools, NoPool)
        ELSE Out(TRUE, tunnels, fw, Insert(postgres_pools, config.id, pool), mysql_pools,
                 sqlite_pools, pool)

connect_postgres(config, password, tunnel_ok, pool_ok) ==
    LET est == establish_ssh_tunnel(config, tunnel_ok)
        final_config == FinalConfig(config, est.tunnel)
        tn == IF config.ssh_enabled THEN Insert(tunnels, config.id, est.tunnel) ELSE tunnels
        fw == IF config.ssh_enabled THEN est.forwarders ELSE forwarders
        pool == MkPool("Postgres",
                       UnwrapOr(final_config.host, "localhost"),
                       UnwrapOr(final_config.port, 5432),
                       UnwrapOr(final_config.database, "postgres"))
    IN  IF config.ssh_enabled /\ ~est.ok
        THEN Untouched
        ELSE IF ~pool_ok
        THEN Out(FALSE, tn, fw, postgres_pools, mysql_pools, sqlite_pools, NoPool)
        ELSE Out(TRUE, tn, fw, Insert(postgres_pools, config.id, pool), mysql_pools,
                 sqlite_pools, pool)

connect_mysql(config, password, tunnel_ok, pool_ok) ==
    LET est == establish_ssh_tunnel(config, tunnel_ok)
        final_config == FinalConfig(config, est.tunnel)
        tn == IF config.ssh_enabled THEN Insert(tunnels, config.id, est.tunnel) ELSE tunnels
        fw == IF config.ssh_enabled THEN est.forwarders ELSE forwarders
        pool == MkPool("MySql",
                       UnwrapOr(final_config.host, "localhost"),
                       UnwrapOr(final_config.port, 3306),
                       UnwrapOr(final_config.database, ""))
    IN  IF config.ssh_enabled /\ ~est.ok
        THEN Untouched
        ELSE IF ~pool_ok
        THEN Out(FALSE, tn, fw, postgres_pools, mysql_pools, sqlite_pools, NoPool)
        ELSE Out(TRUE, tn, fw, postgres_pools, Insert(mysql_pools, config.id, pool),
                 sqlite_pools, pool)

connect_sqlite(config, pool_ok) ==
    LET pool == MkPool("Sqlite", "", 0, UnwrapOr(config.database, ""))
    IN  IF config.database = None \/ ~pool_ok
        THEN Untouched
        ELSE Out(TRUE, tunnels, forwarders, postgres_pools, mysql_pools,
                 Insert(sqlite_pools, config.id, pool), pool)

\* The match on db_type of connect and switch_database.
ConnectByType(config, password, tunnel_ok, pool_ok) ==
    CASE config.db_type = "Postgres" -> connect_postgres(config, password, tunnel_ok, pool_ok)
      [] config.db_type = "MySql" -> connect_mysql(config, password, tunnel_ok, pool_ok)
      [] config.db_type = "Sqlite" -> connect_sqlite(config, pool_ok)

\* Whether this call reaches establish_ssh_tunnel.
UsesTunnel(config) == config.ssh_enabled /\ config.db_type # "Sqlite"

\* The environment's answers to one call: tunnel_ok is read only by a call that
\* establishes a tunnel and second_ok (pool construction, ping) only once the
\* tunnel stands; an answer nobody reads is fixed, and no more than MaxTunnels
\* forwarder tasks are spawned in one behaviour.
EnvChoice(uses_tunnel, tunnel_ok, second_ok) ==
    /\ ~uses_tunnel => tunnel_ok
    /\ (uses_tunnel /\ ~tunnel_ok) => ~second_ok
    /\ (uses_tunnel /\ tunnel_ok) => Len(forwarders) < MaxTunnels

\* What the command that returned last was called with and gave back: tunnel
\* is the forwarder task of the temporary tunnel of test_connection (0: none),
\* db the name switch_database was asked for, pool the pool the call built.
Returned(op, id, ok, tunnel, db, pool) ==
    [op |-> op, id |-> id, ok |-> ok, tunnel |-> tunnel, db |-> db, pool |-> pool]

\* A connect that stores the config it built the pool from.
connect_StoresFinalConfig(config, password, tunnel_ok, pool_ok) ==
    LET r == ConnectByType(config, password, tunnel_ok, pool_ok)
        stored == IF UsesTunnel(config) /\ tunnel_ok
                  THEN FinalConfig(config, r.tunnels[config.id])
                  ELSE config
    IN  /\ EnvChoice(UsesTunnel(config), tunnel_ok, pool_ok)
        /\ configs' = Insert(configs, config.id, stored)
        /\ passwords' = Insert(passwords, config.id, password)
        /\ tunnels' = r.tunnels
        /\ forwarders' = r.forwarders
        /\ postgres_pools' = r.postgres_pools
        /\ mysql_pools' = r.mysql_pools
        /\ sqlite_pools' = r.sqlite_pools
        /\ last' = Returned("connect", config.id, r.ok, 0, "", r.pool)
        /\ UNCHANGED <<streamvars, call>>

connect(config, password, tunnel_ok, pool_ok) ==
    LET r == ConnectByType(config, password, tunnel_ok, pool_ok)
    IN  /\ EnvChoice(UsesTunnel(config), tunnel_ok, pool_ok)
        /\ configs' = Insert(configs, config.id, config)
        /\ passwords' = Insert(passwords, config.id, password)
        /\ tunnels' = r.tunnels
        /\ forwarders' = r.forwarders
        /\ postgres_pools' = r.postgres_pools
        /\ mysql_pools' = r.mysql_pools
        /\ sqlite_pools' = r.sqlite_pools
        /\ last' = Returned("connect", config.id, r.ok, 0, "", r.pool)
        /\ UNCHANGED <<streamvars, call>>

\* The required fields test_connection unwraps with `?` before it connects.
TestFieldsPresent(final_config) ==
    IF final_config.db_type = "Sqlite"
    THEN final_config.database # None
    ELSE /\ final_config.host # None
         /\ final_config.username # None
         /\ final_config.database # None

\* test_connection's clean-up of the temporary tunnel and its return value:
\* an early `?` return on a missing field skips the clean-up.
TestOutcome(final_config, fw, tunnel_opt, ping_ok) ==
    IF ~TestFieldsPresent(final_config)
    THEN [ok |-> FALSE, forwarders |-> fw]
    ELSE [ok |-> ping_ok,
          forwarders |-> IF tunnel_opt # 0 THEN Abort(fw, tunnel_opt) ELSE fw]

\* A test_connection that registers its tunnel the way connect_postgres does.
TestTunnels_Registered(config, est) ==
    IF config.ssh_enabled /\ est.ok
    THEN Insert(tunnels, config.id, est.tunnel)
    ELSE tunnels

\* The tunnels registry after test_connection: the temporary tunnel lives in
\* the local tunnel_opt only.
TestTunnels(config, est) == tunnels

test_connection(config, password, tunnel_ok, ping_ok) ==
    LET est == establish_ssh_tunnel(config, tunnel_ok)
        final_config == FinalConfig(config, est.tunnel)
        fw == IF config.ssh_enabled THEN est.forwarders ELSE forwarders
        tunnel_opt == IF config.ssh_enabled THEN est.tunnel.task_handle ELSE 0
        out == TestOutcome(final_config, fw, tunnel_opt, ping_ok)
    IN  /\ EnvChoice(config.ssh_enabled, tunnel_ok, ping_ok)
        /\ IF config.ssh_enabled /\ ~est.ok
           THEN /\ forwarders' = forwarders
                /\ last' = Returned("test_connection", config.id, FALSE, 0, "", NoPool)
           ELSE /\ forwarders' = out.forwarders
                /\ last' = Returned("test_connection", config.id, out.ok, tunnel_opt, "", NoPool)
        /\ tunnels' = TestTunnels(config, est)
        /\ UNCHANGED <<postgres_pools, mysql_pools, sqlite_pools, configs, passwords>>
        /\ UNCHANGED <<streamvars, call>>

switch_database(id, db_name, tunnel_ok, pool_ok) ==
    IF id \notin DOMAIN configs
    THEN /\ EnvChoice(FALSE, tunnel_ok, pool_ok) /\ ~pool_ok
         /\ last' = Returned("switch_database", id, FALSE, 0, db_name, NoPool)
         /\ UNCHANGED <<registry, forwarders, streamvars, call>>
    ELSE
    LET config == configs[id]
        password == IF id \in DOMAIN passwords THEN passwords[id] ELSE None
        new_config == [config EXCEPT !.database = Some(db_name)]
        result == IF new_config.db_type = "Sqlite"
                  THEN Untouched
                  ELSE ConnectByType(new_config, password, tunnel_ok, pool_ok)
    IN  /\ EnvChoice(UsesTunnel(new_config), tunnel_ok, pool_ok)
        /\ new_config.db_type = "Sqlite" => ~pool_ok
        /\ tunnels' = result.tunnels
        /\ forwarders' = result.forwarders
        /\ postgres_pools' = result.postgres_pools
        /\ mysql_pools' = result.mysql_pools
        /\ sqlite_pools' = result.sqlite_pools
        /\ configs' = IF result.ok THEN Insert(configs, id, new_config) ELSE configs
        /\ passwords' = IF result.ok THEN Insert(passwords, id, password) ELSE passwords
        /\ last' = Returned("switch_database", id, result.ok, 0, db_name, result.pool)
        /\ UNCHANGED <<streamvars, call>>

disconnect(id) ==
    /\ configs' = Remove(configs, id)
    /\ passwords' = Remove(passwords, id)
    /\ IF id \in DOMAIN postgres_pools
       THEN /\ postgres_pools' = Remove(postgres_pools, id)
            /\ UNCHANGED <<mysql_pools, sqlite_pools, tunnels, forwarders>>
       ELSE IF id \in DOMAIN mysql_pools
       THEN /\ mysql_pools' = Remove(mysql_pools, id)
            /\ UNCHANGED <<postgres_pools, sqlite_pools, tunnels, forwarders>>
       ELSE /\ sqlite_pools' = Remove(sqlite_pools, id)
            /\ tunnels' = Remove(tunnels, id)
            /\ forwarders' = IF id \in DOMAIN tunnels
                             THEN Abort(forwarders, tunnels[id].task_handle)
                             ELSE forwarders
            /\ UNCHANGED <<postgres_pools, mysql_pools>>
    /\ last' = Returned("disconnect", id, TRUE, 0, "", NoPool)
    /\ UNCHANGED <<streamvars, call>>

\* No streaming query has been started.
StreamIdle ==
    /\ active_queries = {}
    /\ token = [q \in QueryIds |-> FALSE]
    /\ pc = [q \in QueryIds |-> "idle"]
    /\ conn = [q \in QueryIds |-> 0]
    /\ held = [q \in QueryIds |-> "none"]
    /\ fetched = [q \in QueryIds |-> 0]
    /\ batch = [q \in QueryIds |-> <<>>]
    /\ total_rows = [q \in QueryIds |-> 0]
    /\ columns_sent = [q \in QueryIds |-> FALSE]
    /\ events = [q \in QueryIds |-> <<>>]
    /\ cancel_at = [q \in QueryIds |-> -1]

\* ConnectionManager::new.
Init ==
    /\ postgres_pools = EmptyMap
    /\ mysql_pools = EmptyMap
    /\ sqlite_pools = EmptyMap
    /\ configs = EmptyMap
    /\ passwords = EmptyMap
    /\ tunnels = EmptyMap
    /\ forwarders = <<>>
    /\ last = Returned("new", 0, TRUE, 0, "", NoPool)
    /\ StreamIdle
    /\ call = NoCall

Next ==
    \/ \E config \in SavedConfigs, tunnel_ok \in BOOLEAN, pool_ok \in BOOLEAN :
       \E password \in PasswordsFor(config) :
          connect(config, password, tunnel_ok, pool_ok)
    \/ \E config \in Configs, tunnel_ok \in BOOLEAN, ping_ok \in BOOLEAN :
       \E password \in PasswordsFor(config) :
          test_connection(config, password, tunnel_ok, ping_ok)
    \/ \E id \in ConnIds, db_name \in DbNames, tunnel_ok \in BOOLEAN, pool_ok \in BOOLEAN :
          switch_database(id, db_name, tunnel_ok, pool_ok)
    \/ \E id \in ConnIds : disconnect(id)

Spec == Init /\ [][Next]_vars

\* ------------------------------------------------------- streaming executor

Dialects == <<"postgres", "mysql", "sqlite">>

\* The pool registry get_<dialect>_pools locks.
PoolsOf(d) ==
    CASE d = "postgres" -> postgres_pools
      [] d = "mysql" -> mysql_pools
      [] d = "sqlite" -> sqlite_pools

\* The registry mutex of dialect d is held by no streaming task.
LockFree(d) == \A q \in QueryIds : held[q] # d

\* An event as the sink receives it. window.emit fails only once the window is
\* gone, when there is no sink left to observe anything; every emit is
\* delivered.
Event(type, rows, total) == [type |-> type, rows |-> rows, total_rows |-> total]

\* A loop body that sends the column list with every row it pulls.
RowEvents_MetadataEveryRow(sent, full_batch) ==
    <<Event("query-metadata", <<>>, 0)>>
        \o (IF Len(full_batch) >= batch_size
            THEN <<Event("query-batch", full_batch, 0)>>
            ELSE <<>>)

\* The events stream_db emits for one pulled row: query-metadata on the first
\* row, query-batch when the batch has grown to batch_size.
RowEvents(sent, full_batch) ==
    (IF sent THEN <<>> ELSE <<Event("query-metadata", <<>>, 0)>>)
        \o (IF Len(full_batch) >= batch_size
            THEN <<Event("query-batch", full_batch, 0)>>
            ELSE <<>>)

\* A loop body that leaves out batch.clear() after the emit.
BatchAfter_NotCleared(full_batch) == full_batch

\* The batch stream_db carries into the next iteration.
BatchAfter(full_batch) == IF Len(full_batch) >= batch_size THEN <<>> ELSE full_batch

\* The events stream_db emits once the cursor has ended: the partial batch, if
\* any, and query-complete.
EndEvents(b, total) ==
    (IF b # <<>> THEN <<Event("query-batch", b, 0)>> ELSE <<>>)
        \o <<Event("query-complete", <<>>, total)>>

\* A spawned task that drops the result without looking at it.
ResultEvents_Dropped(is_err) == <<>>

\* What the spawned task of the execute_query_streaming command emits once
\* QueryEngine::execute_query_streaming has returned.
ResultEvents(is_err) ==
    IF is_err THEN <<Event("query-error", <<>>, 0)>> ELSE <<>>

\* The execute_query_streaming command: registers a fresh token and spawns the
\* task. Each query_id is issued once. The command has one return, Ok(()),
\* right after the spawn: pc[q] # "idle" says it has returned Ok.
execute_query_streaming(q, connection_id) ==
    /\ pc[q] = "idle"
    /\ active_queries' = active_queries \cup {q}
    /\ token' = [token EXCEPT ![q] = FALSE]
    /\ conn' = [conn EXCEPT ![q] = connection_id]
    /\ pc' = [pc EXCEPT ![q] = "postgres"]
    /\ UNCHANGED <<call, regvars, held, fetched, batch, total_rows, columns_sent, events, cancel_at>>

\* A lookup that returns Ok when no registry holds connection_id.
Resolve_MissIsOk(q, i) ==
    /\ pc[q] = Dialects[i]
    /\ LockFree(Dialects[i])
    /\ IF conn[q] \in DOMAIN PoolsOf(Dialects[i])
       THEN /\ held' = [held EXCEPT ![q] = Dialects[i]]
            /\ pc' = [pc EXCEPT ![q] = "next"]
            /\ UNCHANGED events
       ELSE IF i < Len(Dialects)
       THEN /\ pc' = [pc EXCEPT ![q] = Dialects[i + 1]]
            /\ UNCHANGED <<held, events>>
       ELSE /\ pc' = [pc EXCEPT ![q] = "cleanup"]
            /\ events' = [events EXCEPT ![q] = @ \o ResultEvents(FALSE)]
            /\ UNCHANGED held
    /\ UNCHANGED <<call, regvars, active_queries, token, conn, fetched, batch, total_rows,
                   columns_sent, cancel_at>>

\* The block of QueryEngine::execute_query_streaming that locks the registry
\* of dialect Dialects[i] and looks connection_id up: a hit starts stream_db
\* with the guard still held, a miss drops the guard and goes on to the next
\* dialect, and a miss in the last one returns Err.
Resolve(q, i) ==
    /\ pc[q] = Dialects[i]
    /\ LockFree(Dialects[i])
    /\ IF conn[q] \in DOMAIN PoolsOf(Dialects[i])
       THEN /\ held' = [held EXCEPT ![q] = Dialects[i]]
            /\ pc' = [pc EXCEPT ![q] = "next"]
            /\ UNCHANGED events
       ELSE IF i < Len(Dialects)
       THEN /\ pc' = [pc EXCEPT ![q] = Dialects[i + 1]]
            /\ UNCHANGED <<held, events>>
       ELSE /\ pc' = [pc EXCEPT ![q] = "cleanup"]
            /\ events' = [events EXCEPT ![q] = @ \o ResultEvents(TRUE)]
            /\ UNCHANGED held
    /\ UNCHANGED <<call, regvars, active_queries, token, conn, fetched, batch, total_rows,
                   columns_sent, cancel_at>>

\* A fetch loop that never looks at the token.
FetchRow_TokenIgnored(q, row_ok) ==
    /\ pc[q] = "next"
    /\ row_ok => fetched[q] < MaxRows
    /\ IF ~row_ok
       THEN /\ pc' = [pc EXCEPT ![q] = "cleanup"]
            /\ held' = [held EXCEPT ![q] = "none"]
            /\ events' = [events EXCEPT ![q] = @ \o ResultEvents(TRUE)]
            /\ UNCHANGED fetched
       ELSE /\ pc' = [pc EXCEPT ![q] = "row"]
            /\ fetched' = [fetched EXCEPT ![q] = @ + 1]
            /\ UNCHANGED <<held, events>>
    /\ UNCHANGED <<call, regvars, active_queries, token, conn, batch, total_rows,
                   columns_sent, cancel_at>>

\* stream.next().await yields a row or an error: the token is looked at first,
\* then the row result.
FetchRow(q, row_ok) ==
    /\ pc[q] = "next"
    /\ row_ok => fetched[q] < MaxRows
    /\ IF token[q]
       THEN /\ pc' = [pc EXCEPT ![q] = "cleanup"]
            /\ held' = [held EXCEPT ![q] = "none"]
            /\ UNCHANGED <<fetched, events>>
       ELSE IF ~row_ok
       THEN /\ pc' = [pc EXCEPT ![q] = "cleanup"]
            /\ held' = [held EXCEPT ![q] = "none"]
            /\ events' = [events EXCEPT ![q] = @ \o ResultEvents(TRUE)]
            /\ UNCHANGED fetched
       ELSE /\ pc' = [pc EXCEPT ![q] = "row"]
            /\ fetched' = [fetched EXCEPT ![q] = @ + 1]
            /\ UNCHANGED <<held, events>>
    /\ UNCHANGED <<call, regvars, active_queries, token, conn, batch, total_rows,
                   columns_sent, cancel_at>>

\* The rest of the loop body for the row just pulled.
ProcessRow(q) ==
    LET full_batch == Append(batch[q], fetched[q])
    IN  /\ pc[q] = "row"
        /\ events' = [events EXCEPT ![q] = @ \o RowEvents(columns_sent[q], full_batch)]
        /\ columns_sent' = [columns_sent EXCEPT ![q] = TRUE]
        /\ batch' = [batch EXCEPT ![q] = BatchAfter(full_batch)]
        /\ total_rows' = [total_rows EXCEPT ![q] = @ + 1]
        /\ pc' = [pc EXCEPT ![q] = "next"]
        /\ UNCHANGED <<call, regvars, active_queries, token, conn, held, fetched, cancel_at>>

\* stream.next().await yields None: the loop ends without another look at the
\* token, and stream_db emits what is left and returns Ok.
EndOfStream(q) ==
    /\ pc[q] = "next"
    /\ events' = [events EXCEPT ![q] = @ \o EndEvents(batch[q], total_rows[q]) \o ResultEvents(FALSE)]
    /\ batch' = [batch EXCEPT ![q] = <<>>]
    /\ held' = [held EXCEPT ![q] = "none"]
    /\ pc' = [pc EXCEPT ![q] = "cleanup"]
    /\ UNCHANGED <<call, regvars, active_queries, token, conn, fetched, total_rows,
                   columns_sent, cancel_at>>

\* A spawned task that ends without the remove.
Cleanup_NoRemove(q) ==
    /\ pc[q] = "cleanup"
    /\ pc' = [pc EXCEPT ![q] = "done"]
    /\ UNCHANGED <<call, regvars, active_queries, token, conn, held, fetched, batch,
                   total_rows, columns_sent, events, cancel_at>>

\* The spawned task's last step: active_queries.remove(query_id).
Cleanup(q) ==
    /\ pc[q] = "cleanup"
    /\ active_queries' = active_queries \ {q}
    /\ pc' = [pc EXCEPT ![q] = "done"]
    /\ UNCHANGED <<call, regvars, token, conn, held, fetched, batch, total_rows,
                   columns_sent, events, cancel_at>>

\* The cancel_query command, for a query_id that has been issued and whose
\* task has not ended; the first call is the one the model follows.
cancel_query(q) ==
    /\ pc[q] \notin {"idle", "done"}
    /\ cancel_at[q] = -1
    /\ active_queries' = active_queries \ {q}
    /\ token' = [token EXCEPT ![q] = (@ \/ q \in active_queries)]
    /\ cancel_at' = [cancel_at EXCEPT ![q] = Len(events[q])]
    /\ UNCHANGED <<call, regvars, pc, conn, held, fetched, batch, total_rows,
                   columns_sent, events>>

\* A pool left in a registry by an earlier connect.
StreamPool(t, p) == MkPool(t, "localhost", p, "main")

\* The registry as earlier connect calls left it: every connection id is
\* connected under one dialect or not connected.
StreamInit ==
    /\ \E pg \in SUBSET StreamConnIds, my \in SUBSET StreamConnIds, sq \in SUBSET StreamConnIds :
          /\ pg \cap my = {} /\ pg \cap sq = {} /\ my \cap sq = {}
          /\ postgres_pools = [c \in pg |-> StreamPool("Postgres", 5432)]
          /\ mysql_pools = [c \in my |-> StreamPool("MySql", 3306)]
          /\ sqlite_pools = [c \in sq |-> MkPool("Sqlite", "", 0, "main")]
          /\ configs = [c \in pg \cup my \cup sq |->
                          MkConfig(c, IF c \in pg THEN "Postgres"
                                      ELSE IF c \in my THEN "MySql" ELSE "Sqlite",
                                   Some("localhost"), None, Some("app"), Some("main"), FALSE)]
          /\ passwords = [c \in pg \cup my \cup sq |-> None]
    /\ tunnels = EmptyMap
    /\ forwarders = <<>>
    /\ last = Returned("new", 0, TRUE, 0, "", NoPool)
    /\ StreamIdle
    /\ call = NoCall

StreamNext ==
    \/ \E q \in QueryIds, connection_id \in StreamConnIds : execute_query_streaming(q, connection_id)
    \/ \E q \in QueryIds, i \in 1..Len(Dialects) : Resolve(q, i)
    \/ \E q \in QueryIds, row_ok \in BOOLEAN : FetchRow(q, row_ok)
    \/ \E q \in QueryIds : ProcessRow(q)
    \/ \E q \in QueryIds : EndOfStream(q)
    \/ \E q \in QueryIds : Cleanup(q)
    \/ \E q \in QueryIds : cancel_query(q)

StreamSpec == StreamInit /\ [][StreamNext]_vars

\* One step of the spawned task of q.
TaskStep(q) ==
    \/ \E i \in 1..Len(Dialects) : Resolve(q, i)
    \/ \E row_ok \in BOOLEAN : FetchRow(q, row_ok)
    \/ ProcessRow(q)
    \/ EndOfStream(q)
    \/ Cleanup(q)

\* StreamSpec under the runtime's scheduling: a spawned task that can take a
\* step takes it (the executor polls every ready task, the registry mutexes
\* are handed over in arrival order, the database answers every fetch).
StreamFairSpec == StreamSpec /\ \A q \in QueryIds : WF_vars(TaskStep(q))

\* -------------------------------------------------------------- execute_query

\* Bits of the u32 that page, page_size and their product are kept in: 32 in
\* the source, scaled down.
U32Bits == 3
\* Rows the statement under the pagination yields at most.
MaxResult == 5

U32 == 0..(2^U32Bits - 1)
OptU32 == {None} \cup {Some(x) : x \in U32}

\* SQL text as a sequence of pieces: white space, a leading keyword, the rest
\* of the statement, semicolons.
Keywords == {"SELECT", "select", "Select", "WITH", "SHOW"}
Statements ==
    {lead \o <<kw, "..">> \o trail :
        lead \in {<<>>, <<" ">>},
        kw \in Keywords,
        trail \in {<<>>, <<";">>, <<";", " ">>, <<";", ";">>, <<" ", ";">>}}

\* str::to_uppercase on one piece.
to_uppercase(w) == IF w \in {"select", "Select"} THEN "SELECT" ELSE w

RECURSIVE trim_start(_)
trim_start(t) == IF t # <<>> /\ Head(t) = " " THEN trim_start(Tail(t)) ELSE t

RECURSIVE trim_end_matches(_, _)
\* str::trim_end_matches: every trailing piece equal to c is cut off.
trim_end_matches(t, c) ==
    IF t # <<>> /\ t[Len(t)] = c
    THEN trim_end_matches(SubSeq(t, 1, Len(t) - 1), c)
    ELSE t

\* str::trim.
trim(t) == trim_end_matches(trim_start(t), " ")

\* A statement handed to the database as it is.
Plain(t) == [wrapped |-> FALSE, inner |-> t, limit |-> 0, offset |-> 0]

\* A wrap_pagination that writes its two numbers in the wrong places.
wrap_pagination_Swapped(sql, limit, offset) ==
    IF trim(sql) # <<>> /\ to_uppercase(Head(trim(sql))) = "SELECT"
    THEN [wrapped |-> TRUE, inner |-> trim_end_matches(trim(sql), ";"),
          limit |-> offset, offset |-> limit]
    ELSE Plain(trim(sql))

\* wrap_pagination: SELECT * FROM (<inner>) AS __sqlmate_q LIMIT l OFFSET o
\* for a statement that starts with SELECT, the trimmed statement otherwise.
wrap_pagination(sql, limit, offset) ==
    LET trimmed == trim(sql)
    IN  IF trimmed # <<>> /\ to_uppercase(Head(trimmed)) = "SELECT"
        THEN [wrapped |-> TRUE, inner |-> trim_end_matches(trimmed, ";"),
              limit |-> limit, offset |-> offset]
        ELSE Plain(trimmed)

\* The rows a statement yields when it is run as it is, n of them, in their
\* stable order.
AllRows(n) == [i \in 1..n |-> i]

\* What the database returns for final_sql: LIMIT l OFFSET o skips o rows of
\* the inner statement and returns the next l at most.
fetch_all(final_sql, n) ==
    IF final_sql.wrapped
    THEN LET left == IF n > final_sql.offset THEN n - final_sql.offset ELSE 0
             count == IF left < final_sql.limit THEN left ELSE final_sql.limit
         IN  [i \in 1..count |-> final_sql.offset + i]
    ELSE AllRows(n)

\* What execute_query gave back for its arguments over a result of n rows,
\* and the statement it handed to the database (the original one when it
\* did not get as far as the rewrite).
Called(sql, page, page_size, n, ok, final_sql, rows) ==
    [op |-> "execute_query", sql |-> sql, page |-> page, page_size |-> page_size,
     n |-> n, ok |-> ok, final_sql |-> final_sql, rows |-> rows]

\* execute_query on a registered connection whose database answers: p * ps is
\* a u32 product, which panics on overflow in a build with overflow checks and
\* wraps around in one without. A call reads nothing an earlier call wrote,
\* so a behaviour makes one call.
execute_query(sql, page, page_size, n, overflow_checks) ==
    LET paginate == page # None /\ page_size # None /\ UnwrapOr(page_size, 0) > 0
        product == UnwrapOr(page, 0) * UnwrapOr(page_size, 0)
        final_sql == IF paginate
                     THEN wrap_pagination(sql, UnwrapOr(page_size, 0), product % (2^U32Bits))
                     ELSE Plain(sql)
    IN  /\ (~paginate \/ product < 2^U32Bits) => overflow_checks
        /\ call' = IF paginate /\ product >= 2^U32Bits /\ overflow_checks
                   THEN Called(sql, page, page_size, n, FALSE, Plain(sql), <<>>)
                   ELSE Called(sql, page, page_size, n, TRUE, final_sql,
                               fetch_all(final_sql, n))
        /\ UNCHANGED <<regvars, streamvars>>

PageNext ==
    /\ call = NoCall
    /\ \E sql \in Statements, page \in OptU32, page_size \in OptU32,
          n \in 0..MaxResult,
          overflow_checks \in BOOLEAN :
             execute_query(sql, page, page_size, n, overflow_checks)

PageSpec == Init /\ [][PageNext]_vars

\* ---------------------------------------------------------- execute_mutations

\* Statements one execute_mutations call is handed at most.
MaxStatements == 3
\* rows_affected of one statement at most; the u64 sum is far from its width.
MaxAffected == 2

\* A statement by what the database does with it: fail, or change so many rows.
Mutations == [ok : BOOLEAN, rows_affected : 0..MaxAffected]

RECURSIVE SeqsUpTo(_, _)
\* The sequences over S of length n at most.
SeqsUpTo(S, n) ==
    IF n = 0 THEN {<<>>}
    ELSE SeqsUpTo(S, n - 1) \cup {Append(t, x) : t \in SeqsUpTo(S, n - 1), x \in S}

\* What one of the three loops of execute_mutations leaves: the result, the
\* statements the database was handed, in the order it was handed them, and
\* the index of the statement whose Err is returned (0: none).
Ran(ok, total_affected, executed, error) ==
    [ok |-> ok, total_affected |-> total_affected, executed |-> executed,
     error |-> error]

\* Indices of the statements that fail.
Failing(statements) == {i \in DOMAIN statements : ~statements[i].ok}

\* The least element of a non-empty set of numbers.
Least(S) == CHOOSE i \in S : \A j \in S : i <= j

RECURSIVE RunAll(_, _, _)
\* A loop that goes on after a failing statement and reports the first failure
\* at the end.
RunAll(statements, i, total_affected) ==
    IF i > Len(statements)
    THEN IF Failing(statements) = {}
         THEN Ran(TRUE, total_affected, [k \in 1..Len(statements) |-> k], 0)
         ELSE Ran(FALSE, 0, [k \in 1..Len(statements) |-> k], Least(Failing(statements)))
    ELSE RunAll(statements, i + 1,
                total_affected + IF statements[i].ok THEN statements[i].rows_affected ELSE 0)

RECURSIVE RunStatements(_, _, _)
\* for sql in &statements { execute(sql)?; total_affected += rows_affected }
\* from statement i on.
RunStatements(statements, i, total_affected) ==
    IF i > Len(statements)
    THEN Ran(TRUE, total_affected, [k \in 1..Len(statements) |-> k], 0)
    ELSE IF ~statements[i].ok
    THEN Ran(FALSE, 0, [k \in 1..i |-> k], i)
    ELSE RunStatements(statements, i + 1, total_affected + statements[i].rows_affected)

\* execute_mutations: the first registry that holds connection_id runs the
\* loop; no registry holding it is Err("Connection not found").
execute_mutations(connection_id, statements) ==
    LET found == \/ connection_id \in DOMAIN postgres_pools
                 \/ connection_id \in DOMAIN mysql_pools
                 \/ connection_id \in DOMAIN sqlite_pools
        r == IF found THEN RunStatements(statements, 1, 0) ELSE Ran(FALSE, 0, <<>>, 0)
    IN  /\ call' = [op |-> "execute_mutations", connection_id |-> connection_id,
                    statements |-> statements, ok |-> r.ok,
                    total_affected |-> r.total_affected, executed |-> r.executed,
                    error |-> r.error]
        /\ UNCHANGED <<regvars, streamvars>>

MutNext ==
    /\ call = NoCall
    /\ \E connection_id \in StreamConnIds, statements \in SeqsUpTo(Mutations, MaxStatements) :
          execute_mutations(connection_id, statements)

MutSpec == StreamInit /\ [][MutNext]_vars

\* --------------------------------------------------------- build_where_clause

\* Characters a filter value has at most.
MaxValueLen == 2

\* The characters the quoting is about, each a piece of its own.
Apostrophe == "'"
DoubleQuote == "dq"
Backtick == "bt"
Backslash == "bs"

\* Text is a sequence of pieces: a piece is one character of a column name or
\* of a value, or a word of the clause (WHERE, AND, an operator, a bracket);
\* the blanks between the pieces are left out.
ValueChars == {"a", Apostrophe, Backslash}
Values == SeqsUpTo(ValueChars, MaxValueLen)
Columns == {<<"c">>, <<"c", DoubleQuote, Backtick>>}
Operators ==
    {"=", "!=", ">=", "Contains", "LIKE", "Starts With", "ILIKE", "Ends With",
     "IN", "IS NULL", "IS NOT NULL", "~"}
DbTypes == {"postgres", "mysql", "sqlite"}

\* FilterConfig, without its id.
FilterConfigs ==
    [column : Columns, operator : Operators, value : Values, enabled : BOOLEAN]

\* The filters next to which a filter is put into one clause.
OtherFilters ==
    {[column |-> <<"c">>, operator |-> "=", value |-> <<"a">>, enabled |-> TRUE],
     [column |-> <<"c">>, operator |-> "=", value |-> <<"a">>, enabled |-> FALSE],
     [column |-> <<"c">>, operator |-> "IS NULL", value |-> <<>>, enabled |-> TRUE]}

\* The filter lists build_where_clause is called with.
FilterLists ==
    {<<>>} \cup {<<f>> : f \in FilterConfigs}
        \cup {<<f, g>> : f \in FilterConfigs, g \in OtherFilters}
        \cup {<<g, f>> : f \in FilterConfigs, g \in OtherFilters}

RECURSIVE replace(_, _, _)
\* str::replace of the character from by the text to.
replace(t, from, to) ==
    IF t = <<>> THEN <<>>
    ELSE (IF Head(t) = from THEN to ELSE <<Head(t)>>) \o replace(Tail(t), from, to)

\* The column name as build_where_clause quotes it.
QuotedCol(column, db_type) ==
    IF db_type = "mysql"
    THEN <<Backtick>> \o replace(column, Backtick, <<Backtick, Backtick>>) \o <<Backtick>>
    ELSE <<DoubleQuote>> \o replace(column, DoubleQuote, <<DoubleQuote, DoubleQuote>>) \o <<DoubleQuote>>

\* '<before><escaped_val><after>' as format! writes it.
Quoted(before, escaped_val, after) ==
    <<Apostrophe>> \o before \o escaped_val \o after \o <<Apostrophe>>

\* The condition build_where_clause maps one enabled filter to.
Condition(f, db_type) ==
    LET col == QuotedCol(f.column, db_type)
        val == f.value
        escaped_val == replace(val, Apostrophe, <<Apostrophe, Apostrophe>>)
    IN  CASE f.operator \in {"=", "!=", ">", "<", ">=", "<="} ->
                col \o <<f.operator>> \o Quoted(<<>>, escaped_val, <<>>)
          [] f.operator \in {"Contains", "LIKE"} ->
                col \o <<"LIKE">> \o Quoted(<<"%">>, escaped_val, <<"%">>)
          [] f.operator \in {"Starts With", "ILIKE"} ->
                IF db_type = "postgres" /\ f.operator = "ILIKE"
                THEN col \o <<"ILIKE">> \o Quoted(<<>>, escaped_val, <<"%">>)
                ELSE col \o <<"LIKE">> \o Quoted(<<>>, escaped_val, <<"%">>)
          [] f.operator = "Ends With" ->
                col \o <<"LIKE">> \o Quoted(<<"%">>, escaped_val, <<>>)
          [] f.operator = "IN" -> col \o <<"IN", "(">> \o val \o <<")">>
          [] f.operator = "IS NULL" -> col \o <<"IS NULL">>
          [] f.operator = "IS NOT NULL" -> col \o <<"IS NOT NULL">>
          [] OTHER -> col \o <<"=">> \o Quoted(<<>>, escaped_val, <<>>)

\* A filter that lets every filter through.
IsEnabled_Always(f) == TRUE

\* filter(|f| f.enabled)
IsEnabled(f) == f.enabled

RECURSIVE Join(_, _)
\* [String]::join with a separator word.
Join(parts, sep) ==
    IF parts = <<>> THEN <<>>
    ELSE IF Len(parts) = 1 THEN parts[1]
    ELSE parts[1] \o <<sep>> \o Join(Tail(parts), sep)

build_where_clause(filters, db_type) ==
    LET enabled == SelectSeq(filters, IsEnabled)
        conditions == [i \in 1..Len(enabled) |-> Condition(enabled[i], db_type)]
    IN  IF filters = <<>> \/ conditions = <<>>
        THEN <<>>
        ELSE <<"WHERE">> \o Join(conditions, "AND")

\* A call of build_where_clause, as get_table_data, get_table_count and
\* export_table_data make it; a behaviour makes one call.
BuildWhere(filters, db_type) ==
    /\ call' = [op |-> "build_where_clause", filters |-> filters, db_type |-> db_type,
                clause |-> build_where_clause(filters, db_type)]
    /\ UNCHANGED <<regvars, streamvars>>

WhereNext ==
    /\ call = NoCall
    /\ \E filters \in FilterLists, db_type \in DbTypes : BuildWhere(filters, db_type)

WhereSpec == Init /\ [][WhereNext]_vars

\* What the database's lexer makes of a piece of the clause.
Token(kind, text) == [kind |-> kind, text |-> text]

RECURSIVE ReadQuoted(_, _, _, _, _)
\* The database reads a quoted region of t from piece i on, the opening quote
\* q behind it: a doubled q stands for one q, a single q closes the region,
\* and where backslash escapes are on (string literals of MySQL under its
\* default sql_mode) a backslash takes the piece after it with it. Postgres
\* (standard_conforming_strings on, the default) and SQLite read a backslash
\* as itself.
ReadQuoted(t, i, q, backslash_escapes, content) ==
    IF i > Len(t)
    THEN [closed |-> FALSE, content |-> content, next |-> i]
    ELSE IF backslash_escapes /\ t[i] = Backslash
    THEN IF i + 1 > Len(t)
         THEN [closed |-> FALSE, content |-> content, next |-> i + 1]
         ELSE ReadQuoted(t, i + 2, q, backslash_escapes, Append(content, t[i + 1]))
    ELSE IF t[i] = q
    THEN IF i + 1 <= Len(t) /\ t[i + 1] = q
         THEN ReadQuoted(t, i + 2, q, backslash_escapes, Append(content, q))
         ELSE [closed |-> TRUE, content |-> content, next |-> i + 1]
    ELSE ReadQuoted(t, i + 1, q, backslash_escapes, Append(content, t[i]))

\* The quote that opens a quoted identifier.
IdentQuote(db_type) == IF db_type = "mysql" THEN Backtick ELSE DoubleQuote

RECURSIVE ReadSql(_, _, _, _)
\* The tokens the database of dialect db_type reads t as, from piece i on:
\* string literals, quoted identifiers, and everything else as SQL text.
ReadSql(t, i, db_type, tokens) ==
    IF i > Len(t) THEN tokens
    ELSE IF t[i] \in {Apostrophe, IdentQuote(db_type)}
    THEN LET r == ReadQuoted(t, i + 1, t[i], t[i] = Apostrophe /\ db_type = "mysql", <<>>)
             kind == IF ~r.closed THEN "unterminated"
                     ELSE IF t[i] = Apostrophe THEN "string" ELSE "ident"
         IN  ReadSql(t, r.next, db_type, Append(tokens, Token(kind, r.content)))
    ELSE ReadSql(t, i + 1, db_type, Append(tokens, Token("sql", <<t[i]>>)))

\* --------------------------------------------------------------- value mappers

\* Rust types at most that the driver decodes one raw value into.
MaxDecodes == 2

\* The Rust types the mappers probe a raw value with (try_get::<T>).
RustTypes ==
    {"bool", "Uuid", "i64", "i32", "i16", "i8", "u64", "u32", "f64", "f32",
     "Decimal", "String", "DateTime<Utc>", "NaiveDateTime", "NaiveDate",
     "NaiveTime", "Vec<u8>"}

\* Lower-cased type names of columns, each a sequence of pieces so that
\* str::contains is a test on the pieces.
TypeNames ==
    {<<"bool">>, <<"bit">>, <<"uuid">>, <<"int", "4">>, <<"tiny", "int">>,
     <<"int", "erval">>, <<"float", "8">>, <<"numeric">>, <<"text">>,
     <<"var", "char">>, <<"jsonb">>, <<"enum">>, <<"time", "stamptz">>,
     <<"date">>, <<"bytea">>, <<"blob">>, <<"mood">>}

\* The strings a column holds.
Texts == {<<>>, <<"s">>}

\* A raw column value as the driver presents it: whether it is null, the
\* name of its type, whether its full MySQL type is TINYINT(1), the Rust
\* types try_get decodes it into, and what decoding gives: the string s,
\* a float that is finite or not, bytes that are 16 long or not.
NullRawValues ==
    [is_null : {TRUE}, type_name : TypeNames, tinyint1 : {FALSE}, decodes : {{}},
     s : {<<>>}, finite : {TRUE}, len16 : {FALSE}]

NonNullRawValues ==
    {r \in [is_null : {FALSE}, type_name : TypeNames, tinyint1 : BOOLEAN,
            decodes : {d \in SUBSET RustTypes : Cardinality(d) <= MaxDecodes},
            s : Texts, finite : BOOLEAN, len16 : BOOLEAN] :
        /\ r.tinyint1 => r.type_name = <<"tiny", "int">>
        /\ ~r.finite => r.decodes \cap {"f64", "f32"} # {}
        /\ r.len16 => "Vec<u8>" \in r.decodes}

RawValues == NullRawValues \cup NonNullRawValues

\* serde_json::Value, as far as the mappers build it.
Null == [kind |-> "null"]
Bool == [kind |-> "bool"]
Number == [kind |-> "number"]
String(text) == [kind |-> "string", text |-> text]

\* str::contains for a piece of a type name.
contains(name, piece) == \E i \in DOMAIN name : name[i] = piece

\* row.try_get::<T, _>(i) is Ok.
TryGet(raw, T) == T \in raw.decodes

type_name_is_text(name) ==
    \/ name = <<"text">> \/ contains(name, "char") \/ name = <<"name">>
    \/ name = <<"citext">> \/ name = <<"json">> \/ name = <<"jsonb">>
    \/ name = <<"enum">>

\* The probes of signed widths i64, i32, i16, i8 and the fallback string.
SignedNumber(raw) ==
    IF \E T \in {"i64", "i32", "i16", "i8"} : TryGet(raw, T) THEN Number
    ELSE String(<<"NumError(">> \o raw.type_name \o <<")">>)

\* Number::from_f64(f).map(Value::Number).unwrap_or(Value::Null)
FromF64(raw) == IF raw.finite THEN Number ELSE Null

\* The floating branch of the Postgres and MySQL mappers.
FloatOrDecimal(raw) ==
    IF TryGet(raw, "f64") \/ TryGet(raw, "f32") THEN FromF64(raw)
    ELSE IF TryGet(raw, "Decimal") THEN String(<<"decimal">>)
    ELSE Null

\* The temporal branch of the Postgres and MySQL mappers.
TemporalValue(raw) ==
    IF TryGet(raw, "DateTime<Utc>") THEN String(<<"rfc3339">>)
    ELSE IF TryGet(raw, "NaiveDateTime") THEN String(<<"%Y-%m-%d %H:%M:%S">>)
    ELSE IF TryGet(raw, "NaiveDate") THEN String(<<"date">>)
    ELSE IF TryGet(raw, "NaiveTime") THEN String(<<"time">>)
    ELSE IF TryGet(raw, "String") THEN String(raw.s)
    ELSE String(<<"Invalid Date">>)

\* "0x" and the bytes in hex, or the string given when the bytes do not decode.
HexValue(raw, error) ==
    IF TryGet(raw, "Vec<u8>") THEN String(<<"0x", "hex">>) ELSE String(error)

\* The last branch of every mapper.
Fallback(raw) ==
    IF TryGet(raw, "String") THEN String(raw.s)
    ELSE String(<<"Binary/Complex (">> \o raw.type_name \o <<")">>)

\* The text branch: the column's string, or the empty string when String
\* does not decode.
TextBranch(raw) == IF TryGet(raw, "String") THEN String(raw.s) ELSE String(<<>>)

\* One column of postgres_row_to_values.
PostgresValue(raw) ==
    LET type_name == raw.type_name
    IN  IF raw.is_null THEN Null
        ELSE IF type_name \in {<<"bool">>, <<"boolean">>, <<"bit">>}
        THEN IF TryGet(raw, "bool") THEN Bool ELSE Null
        ELSE IF type_name = <<"uuid">>
        THEN IF TryGet(raw, "Uuid") THEN String(<<"uuid">>)
             ELSE String(<<"Invalid UUID">>)
        ELSE IF contains(type_name, "int") \/ type_name \in {<<"serial">>, <<"year">>}
        THEN SignedNumber(raw)
        ELSE IF \/ contains(type_name, "float")
                \/ type_name \in {<<"real">>, <<"double">>, <<"numeric">>, <<"decimal">>}
        THEN FloatOrDecimal(raw)
        ELSE IF type_name_is_text(type_name) THEN TextBranch(raw)
        ELSE IF contains(type_name, "time") \/ type_name = <<"date">>
        THEN TemporalValue(raw)
        ELSE IF contains(type_name, "bytea")
        THEN HexValue(raw, <<"BinaryErr(">> \o type_name \o <<")">>)
        ELSE Fallback(raw)

\* One column of mysql_row_to_values.
MysqlValue(raw) ==
    LET type_name == raw.type_name
    IN  IF raw.is_null THEN Null
        ELSE IF type_name = <<"tiny", "int">> /\ raw.tinyint1
        THEN IF TryGet(raw, "bool") \/ TryGet(raw, "i8") THEN Bool ELSE Null
        ELSE IF contains(type_name, "int") \/ type_name \in {<<"serial">>, <<"year">>}
        THEN IF TryGet(raw, "u64") \/ TryGet(raw, "u32") THEN Number
             ELSE SignedNumber(raw)
        ELSE IF \/ contains(type_name, "float")
                \/ type_name \in {<<"real">>, <<"double">>, <<"numeric">>, <<"decimal">>}
        THEN FloatOrDecimal(raw)
        ELSE IF type_name_is_text(type_name) THEN TextBranch(raw)
        ELSE IF \/ contains(type_name, "time")
                \/ type_name \in {<<"date">>, <<"timestamp">>}
        THEN TemporalValue(raw)
        ELSE IF contains(type_name, "blob") \/ contains(type_name, "binary")
        THEN IF TryGet(raw, "Vec<u8>") /\ raw.len16 THEN String(<<"uuid">>)
             ELSE HexValue(raw, <<"BinaryErr(">> \o type_name \o <<")">>)
        ELSE Fallback(raw)

\* One column of sqlite_row_to_values.
SqliteValue(raw) ==
    LET type_name == raw.type_name
    IN  IF raw.is_null THEN Null
        ELSE IF type_name \in {<<"bool">>, <<"boolean">>}
        THEN IF TryGet(raw, "bool") THEN Bool ELSE Null
        ELSE IF contains(type_name, "int") \/ type_name = <<"integer">>
        THEN SignedNumber(raw)
        ELSE IF contains(type_name, "float") \/ type_name \in {<<"real">>, <<"double">>}
        THEN IF TryGet(raw, "f64") THEN FromF64(raw) ELSE Null
        ELSE IF type_name_is_text(type_name) THEN TextBranch(raw)
        ELSE IF contains(type_name, "blob") THEN HexValue(raw, <<"Blob Error">>)
        ELSE Fallback(raw)

\* The three macros map a row column by column.
postgres_row_to_values(row) == [i \in DOMAIN row |-> PostgresValue(row[i])]
mysql_row_to_values(row) == [i \in DOMAIN row |-> MysqlValue(row[i])]
sqlite_row_to_values(row) == [i \in DOMAIN row |-> SqliteValue(row[i])]

\* The mapper of a dialect.
RowToValues(db_type, row) ==
    CASE db_type = "postgres" -> postgres_row_to_values(row)
      [] db_type = "mysql" -> mysql_row_to_values(row)
      [] db_type = "sqlite" -> sqlite_row_to_values(row)

\* A row of one column is mapped, as the executors do for every fetched row;
\* a behaviour maps one row.
MapRow(db_type, row) ==
    /\ call' = [op |-> "row_to_values", db_type |-> db_type, row |-> row,
                values |-> RowToValues(db_type, row)]
    /\ UNCHANGED <<regvars, streamvars>>

MapNext ==
    /\ call = NoCall
    /\ \E db_type \in DbTypes, raw \in RawValues : MapRow(db_type, <<raw>>)

MapSpec == Init /\ [][MapNext]_vars

\* ------------------------------------------- commands that detect the dialect

\* The commands that find out the dialect of a connection first and fetch the
\* pool from that dialect's registry afterwards.
DetectingCommands == {"get_table_structure", "export_data", "import_sql_dump"}

\* The command starts; a behaviour follows one command.
BeginCommand(op, connection_id) ==
    /\ call = NoCall
    /\ call' = [op |-> op, connection_id |-> connection_id, state |-> "detect",
                at |-> 1, db_type |-> "none"]
    /\ UNCHANGED <<regvars, streamvars>>

\* One contains_key of the detection: the registry of dialect Dialects[at] is
\* locked, asked for connection_id and unlocked again; when no registry has
\* the id the command returns the error "Connection not found".
DetectDialect ==
    /\ call # NoCall
    /\ call.state = "detect"
    /\ call' = IF call.connection_id \in DOMAIN PoolsOf(Dialects[call.at])
               THEN [call EXCEPT !.state = "lookup", !.db_type = Dialects[call.at]]
               ELSE IF call.at < Len(Dialects)
               THEN [call EXCEPT !.at = @ + 1]
               ELSE [call EXCEPT !.state = "not_connected"]
    /\ UNCHANGED <<regvars, streamvars>>

\* get_<db_type>_pools().await.get(connection_id).cloned().unwrap(): the
\* registry is locked a second time; the unwrap of a None panics.
LookupPool ==
    /\ call # NoCall
    /\ call.state = "lookup"
    /\ call' = IF call.connection_id \in DOMAIN PoolsOf(call.db_type)
               THEN [call EXCEPT !.state = "running"]
               ELSE [call EXCEPT !.state = "panicked"]
    /\ UNCHANGED <<regvars, streamvars>>

\* A detecting command next to the registry commands that take a pool away
\* or replace it.
DetectNext ==
    \/ \E op \in DetectingCommands, connection_id \in StreamConnIds :
          BeginCommand(op, connection_id)
    \/ DetectDialect
    \/ LookupPool
    \/ \E id \in ConnIds : disconnect(id)
    \/ \E id \in ConnIds, db_name \in DbNames, tunnel_ok \in BOOLEAN, pool_ok \in BOOLEAN :
          switch_database(id, db_name, tunnel_ok, pool_ok)

DetectSpec == StreamInit /\ [][DetectNext]_vars

\* ---------------------------------------------------------- tunnel forwarder

\* Iterations of the accept loop (listener.incoming()) in one behaviour.
MaxIncoming == 3
\* Bytes the sub-worker reads from its local socket in one behaviour.
MaxBytes == 3
\* Bytes one read of the local socket returns at most: 4096 in the source,
\* scaled down.
MaxChunkLen == 2

\* import_sql_dump: the lines of a dump, and the latest statement that may fail.
MaxLines == 2
MaxFailing == 2
\* do_import_sql reports progress every 100 statements; scaled down.
ProgressEvery == 2

\* import_csv: the records of a file, and the largest batch size asked for.
MaxRecords == 3
MaxCsvBatch == 2

\* Bytes from..to of the local socket's stream, each known by its position.
Bytes(from, to) == [i \in 1..(to - from + 1) |-> from + i - 1]

\* What one iteration of the accept loop meets: the listener yields an
\* error, or a socket for which channel_direct_tcpip fails, or a socket
\* that gets its channel.
AcceptOutcomes == {"listener_error", "channel_error", "channel"}

\* An accept loop that gives up on the first error.
LoopAfter_EndsOnError(outcome) ==
    IF outcome = "channel" THEN "accepting" ELSE "ended"

\* The accept loop after an iteration: both error arms print and go on, and
\* the arm that opens a channel hands it to a thread of its own.
LoopAfter(outcome) == "accepting"

\* establish_ssh_tunnel spawns the forwarder task on the bound listener.
SpawnForwarder ==
    /\ call = NoCall
    /\ call' = [op |-> "forwarder", loop |-> "accepting", incoming |-> 0,
                failures |-> 0, workers |-> 0, outcome |-> "none",
                worker |-> "none", read |-> 0, pending |-> <<>>, sent |-> <<>>]
    /\ UNCHANGED <<regvars, streamvars>>

\* The forwarder task is running.
Forwarding == call # NoCall /\ call.op = "forwarder"

\* One iteration of `for stream in listener.incoming()`. The sub-worker the
\* model follows is the one of the first channel.
AcceptLoop(outcome) ==
    /\ Forwarding
    /\ call.loop = "accepting"
    /\ call.incoming < MaxIncoming
    /\ call' = [call EXCEPT
                  !.incoming = @ + 1,
                  !.outcome = outcome,
                  !.failures = IF outcome = "channel" THEN @ ELSE @ + 1,
                  !.workers = IF outcome = "channel" THEN @ + 1 ELSE @,
                  !.worker = IF outcome = "channel" /\ @ = "none" THEN "read" ELSE @,
                  !.loop = LoopAfter(outcome)]
    /\ UNCHANGED <<regvars, streamvars>>

\* local_stream.read(&mut buf_local): Ok(0) and an error end the forwarding
\* loop, WouldBlock goes on to the remote side, Ok(n) starts the write loop
\* with the n bytes read.
LocalRead(result, n) ==
    /\ Forwarding
    /\ call.worker = "read"
    /\ IF result = "data" THEN call.read + n <= MaxBytes ELSE n = 1
    /\ call' = CASE result \in {"eof", "error"} -> [call EXCEPT !.worker = "ended"]
                 [] result = "would_block" -> [call EXCEPT !.worker = "remote"]
                 [] result = "data" ->
                      [call EXCEPT !.worker = "write",
                                   !.read = @ + n,
                                   !.pending = Bytes(call.read + 1, call.read + n)]
    /\ UNCHANGED <<regvars, streamvars>>

\* One turn of `while written < n`: channel.write takes m bytes, or returns
\* Ok(0) or an error, both of which break out of the while loop only, or
\* WouldBlock, after which the write is tried again. When the while loop is
\* left the worker goes on to the remote side.
ChannelWrite(result, m) ==
    /\ Forwarding
    /\ call.worker = "write"
    /\ IF result = "written" THEN m <= Len(call.pending) ELSE m = 1
    /\ call' = CASE result \in {"zero", "error"} ->
                      [call EXCEPT !.pending = <<>>, !.worker = "remote"]
                 [] result = "would_block" -> call
                 [] result = "written" ->
                      [call EXCEPT
                         !.sent = @ \o SubSeq(call.pending, 1, m),
                         !.pending = SubSeq(@, m + 1, Len(@)),
                         !.worker = IF m = Len(call.pending) THEN "remote" ELSE "write"]
    /\ UNCHANGED <<regvars, streamvars>>

\* channel.read(&mut buf_remote) and the write_all to the local socket:
\* Ok(0), an error and a failed write_all end the forwarding loop, data and
\* WouldBlock lead to the next iteration.
RemoteRead(result) ==
    /\ Forwarding
    /\ call.worker = "remote"
    /\ call' = IF result \in {"eof", "error"}
               THEN [call EXCEPT !.worker = "ended"]
               ELSE [call EXCEPT !.worker = "read"]
    /\ UNCHANGED <<regvars, streamvars>>

ForwardNext ==
    \/ SpawnForwarder
    \/ \E outcome \in AcceptOutcomes : AcceptLoop(outcome)
    \/ \E result \in {"eof", "error", "would_block", "data"}, n \in 1..MaxChunkLen :
          LocalRead(result, n)
    \/ \E result \in {"zero", "error", "would_block", "written"}, m \in 1..MaxChunkLen :
          ChannelWrite(result, m)
    \/ \E result \in {"eof", "error", "data", "would_block"} : RemoteRead(result)

ForwardSpec == Init /\ [][ForwardNext]_vars

\* ------------------------------------------- connect and disconnect interleaved

\* connect(config, password) and disconnect(config.id) are called at the
\* same time on the empty registry; each takes its locks one after the
\* other, and a step of the model is one locked section.
BeginRace(config, password) ==
    /\ call = NoCall
    /\ call' = [op |-> "race", config |-> config, password |-> password,
                connect |-> "configs", disconnect |-> "configs"]
    /\ UNCHANGED <<regvars, streamvars>>

\* The two calls are under way.
Racing == call # NoCall /\ call.op = "race"

\* connect: configs.insert(id, config).
ConnectConfigs ==
    /\ Racing
    /\ call.connect = "configs"
    /\ configs' = Insert(configs, call.config.id, call.config)
    /\ call' = [call EXCEPT !.connect = "passwords"]
    /\ UNCHANGED <<postgres_pools, mysql_pools, sqlite_pools, passwords, tunnels,
                   forwarders, last, streamvars>>

\* connect: passwords.insert(id, password).
ConnectPasswords ==
    /\ Racing
    /\ call.connect = "passwords"
    /\ passwords' = Insert(passwords, call.config.id, call.password)
    /\ call' = [call EXCEPT !.connect = "pool"]
    /\ UNCHANGED <<postgres_pools, mysql_pools, sqlite_pools, configs, tunnels,
                   forwarders, last, streamvars>>

\* connect: the match on db_type, which registers the tunnel and the pool or
\* returns an error.
ConnectPool(tunnel_ok, pool_ok) ==
    LET r == ConnectByType(call.config, call.password, tunnel_ok, pool_ok)
    IN  /\ Racing
        /\ call.connect = "pool"
        /\ EnvChoice(UsesTunnel(call.config), tunnel_ok, pool_ok)
        /\ tunnels' = r.tunnels
        /\ forwarders' = r.forwarders
        /\ postgres_pools' = r.postgres_pools
        /\ mysql_pools' = r.mysql_pools
        /\ sqlite_pools' = r.sqlite_pools
        /\ call' = [call EXCEPT !.connect = "returned"]
        /\ UNCHANGED <<configs, passwords, last, streamvars>>

\* disconnect: configs.remove(id), then passwords.remove(id).
DisconnectConfigs ==
    /\ Racing
    /\ call.disconnect = "configs"
    /\ configs' = Remove(configs, call.config.id)
    /\ call' = [call EXCEPT !.disconnect = "passwords"]
    /\ UNCHANGED <<postgres_pools, mysql_pools, sqlite_pools, passwords, tunnels,
                   forwarders, last, streamvars>>

DisconnectPasswords ==
    /\ Racing
    /\ call.disconnect = "passwords"
    /\ passwords' = Remove(passwords, call.config.id)
    /\ call' = [call EXCEPT !.disconnect = "postgres_pools"]
    /\ UNCHANGED <<postgres_pools, mysql_pools, sqlite_pools, configs, tunnels,
                   forwarders, last, streamvars>>

\* disconnect: the three pool registries in turn; a removal from the
\* Postgres or the MySQL registry that finds a pool returns.
DisconnectPools ==
    LET id == call.config.id
    IN  /\ Racing
        /\ call.disconnect \in {"postgres_pools", "mysql_pools", "sqlite_pools"}
        /\ postgres_pools' = IF call.disconnect = "postgres_pools"
                             THEN Remove(postgres_pools, id) ELSE postgres_pools
        /\ mysql_pools' = IF call.disconnect = "mysql_pools"
                          THEN Remove(mysql_pools, id) ELSE mysql_pools
        /\ sqlite_pools' = IF call.disconnect = "sqlite_pools"
                           THEN Remove(sqlite_pools, id) ELSE sqlite_pools
        /\ call' = [call EXCEPT !.disconnect =
                      CASE @ = "postgres_pools" ->
                              IF id \in DOMAIN postgres_pools THEN "returned" ELSE "mysql_pools"
                        [] @ = "mysql_pools" ->
                              IF id \in DOMAIN mysql_pools THEN "returned" ELSE "sqlite_pools"
                        [] @ = "sqlite_pools" -> "tunnels"]
        /\ UNCHANGED <<configs, passwords, tunnels, forwarders, last, streamvars>>

\* disconnect: tunnels.remove(id) and the abort of what it held.
DisconnectTunnels ==
    LET id == call.config.id
    IN  /\ Racing
        /\ call.disconnect = "tunnels"
        /\ tunnels' = Remove(tunnels, id)
        /\ forwarders' = IF id \in DOMAIN tunnels
                         THEN Abort(forwarders, tunnels[id].task_handle)
                         ELSE forwarders
        /\ call' = [call EXCEPT !.disconnect = "returned"]
        /\ UNCHANGED <<postgres_pools, mysql_pools, sqlite_pools, configs, passwords,
                       last, streamvars>>

RaceNext ==
    \/ \E config \in SavedConfigs : \E password \in PasswordsFor(config) :
          BeginRace(config, password)
    \/ ConnectConfigs
    \/ ConnectPasswords
    \/ \E tunnel_ok \in BOOLEAN, pool_ok \in BOOLEAN : ConnectPool(tunnel_ok, pool_ok)
    \/ DisconnectConfigs
    \/ DisconnectPasswords
    \/ DisconnectPools
    \/ DisconnectTunnels

RaceSpec == Init /\ [][RaceNext]_vars

\* ----------------------------------------------------------------- the locks

\* The mutexes of ConnectionManager and AppState.
Locks ==
    {"configs", "passwords", "postgres_pools", "mysql_pools", "sqlite_pools",
     "tunnels", "active_queries"}

RECURSIVE InTurn_Nested(_)
\* Locked sections one inside the other: every guard lives to the end.
InTurn_Nested(locks) ==
    IF locks = <<>> THEN <<>>
    ELSE <<[do |-> "acquire", lock |-> Head(locks)]>>
             \o InTurn_Nested(Tail(locks))
             \o <<[do |-> "release", lock |-> Head(locks)]>>

RECURSIVE InTurn(_)
\* Locked sections one after the other, as the blocks and statements of the
\* code scope their guards: each lock is released before the next is taken.
InTurn(locks) ==
    IF locks = <<>> THEN <<>>
    ELSE <<[do |-> "acquire", lock |-> Head(locks)],
           [do |-> "release", lock |-> Head(locks)]>> \o InTurn(Tail(locks))

\* The locks an operation takes, in the order of its code, along each of its
\* paths.
LockOrders ==
    {\* connect, to Postgres and MySQL through a tunnel or not, and to SQLite
     <<"configs", "passwords", "tunnels", "postgres_pools">>,
     <<"configs", "passwords", "postgres_pools">>,
     <<"configs", "passwords", "tunnels", "mysql_pools">>,
     <<"configs", "passwords", "sqlite_pools">>,
     \* disconnect, returning at the Postgres pool, at the MySQL pool, at the end
     <<"configs", "passwords", "postgres_pools">>,
     <<"configs", "passwords", "postgres_pools", "mysql_pools">>,
     <<"configs", "passwords", "postgres_pools", "mysql_pools", "sqlite_pools", "tunnels">>,
     \* switch_database of a tunnelled Postgres connection
     <<"configs", "passwords", "tunnels", "postgres_pools", "configs", "passwords">>,
     \* cancel_query
     <<"active_queries">>,
     \* execute_query_streaming, command and spawned task, on a Postgres, a
     \* SQLite and an unknown connection
     <<"active_queries", "postgres_pools", "active_queries">>,
     <<"active_queries", "postgres_pools", "mysql_pools", "sqlite_pools", "active_queries">>,
     \* execute_query and the commands that detect the dialect
     <<"postgres_pools">>,
     <<"postgres_pools", "mysql_pools", "sqlite_pools">>}

\* The two operations that run at the same time.
Tasks == {1, 2}

\* Two operations start.
BeginLocking(first, second) ==
    /\ call = NoCall
    /\ call' = [op |-> "locks", steps |-> <<InTurn(first), InTurn(second)>>,
                pc |-> <<1, 1>>]
    /\ UNCHANGED <<regvars, streamvars>>

Locking == call # NoCall /\ call.op = "locks"

\* The locks task t holds: acquired and not released again.
Held(t) ==
    {l \in Locks :
        \E i \in 1..(call.pc[t] - 1) :
            /\ call.steps[t][i] = [do |-> "acquire", lock |-> l]
            /\ \A j \in (i + 1)..(call.pc[t] - 1) :
                  call.steps[t][j] # [do |-> "release", lock |-> l]}

\* Task t has steps left.
Unfinished(t) == call.pc[t] <= Len(call.steps[t])

\* Task t can take its next step: a release, or the lock().await of a mutex
\* nobody holds (tokio's Mutex is not reentrant).
CanStep(t) ==
    /\ Unfinished(t)
    /\ call.steps[t][call.pc[t]].do = "acquire" =>
          \A u \in Tasks : call.steps[t][call.pc[t]].lock \notin Held(u)

LockStep(t) ==
    /\ Locking
    /\ CanStep(t)
    /\ call' = [call EXCEPT !.pc[t] = @ + 1]
    /\ UNCHANGED <<regvars, streamvars>>

LockNext ==
    \/ \E first \in LockOrders, second \in LockOrders : BeginLocking(first, second)
    \/ \E t \in Tasks : LockStep(t)

LockSpec == Init /\ [][LockNext]_vars

\* ------------------------------------------------------------ import_sql_dump

\* The end of a line, as do_import_sql pushes it after every line it scans.
Newline == "nl"

RECURSIVE strip_start(_)
\* str::trim on a statement: the blanks and line ends at its start ...
strip_start(t) ==
    IF t # <<>> /\ Head(t) \in {" ", Newline} THEN strip_start(Tail(t)) ELSE t

RECURSIVE strip_end(_)
\* ... and at its end.
strip_end(t) ==
    IF t # <<>> /\ t[Len(t)] \in {" ", Newline}
    THEN strip_end(SubSeq(t, 1, Len(t) - 1))
    ELSE t

strip(t) == strip_end(strip_start(t))

starts_with(t, prefix) ==
    Len(t) >= Len(prefix) /\ SubSeq(t, 1, Len(prefix)) = prefix

\* The test at the top of the line loop: the line is skipped.
IsCommentLine(line) ==
    \/ starts_with(strip(line), <<"-", "-">>)
    \/ starts_with(strip(line), <<"/", "*">>)

\* The characters that open and close a string for the dialect.
IsQuote(c, db_type) ==
    c \in {Apostrophe, DoubleQuote, Backtick} /\ (db_type = "mysql" \/ c # Backtick)

\* The scanner's variables before the first line.
ScanStart ==
    [in_string |-> FALSE, quote_char |-> " ", current_statement |-> <<>>,
     found |-> <<>>]

\* One turn of the loop over the characters of a line; found collects the
\* statements the turn hands to execute_statement.
ScanChar(st, c, db_type) ==
    LET in_string == IF IsQuote(c, db_type)
                     THEN IF st.in_string THEN c # st.quote_char ELSE TRUE
                     ELSE st.in_string
        quote_char == IF IsQuote(c, db_type) /\ ~st.in_string THEN c ELSE st.quote_char
        current == Append(st.current_statement, c)
        ends == c = ";" /\ ~in_string
    IN  [in_string |-> in_string,
         quote_char |-> quote_char,
         current_statement |-> IF ends THEN <<>> ELSE current,
         found |-> IF ends /\ strip(current) # <<>>
                   THEN Append(st.found, strip(current))
                   ELSE st.found]

RECURSIVE ScanChars(_, _, _)
ScanChars(st, line, db_type) ==
    IF line = <<>> THEN st
    ELSE ScanChars(ScanChar(st, Head(line), db_type), Tail(line), db_type)

\* One turn of the loop over the lines.
ScanLine(st, line, db_type) ==
    IF IsCommentLine(line) THEN st
    ELSE LET after == ScanChars(st, line, db_type)
         IN  [after EXCEPT !.current_statement = Append(@, Newline)]

\* ImportProgress, as far as the listener can tell events apart.
Progress(status, rows_processed) ==
    [status |-> status, rows_processed |-> rows_processed]

\* The lines a dump is made of.
DumpLines ==
    {<<>>, <<"a">>, <<"a", ";">>, <<";", "a", ";">>,
     <<Apostrophe>>, <<Apostrophe, ";">>, <<DoubleQuote, Apostrophe>>,
     <<Backtick, ";">>,
     <<"-", "-">>, <<" ", "-", "-">>, <<"/", "*">>}

\* The dumps of at most MaxLines lines.
Dumps == UNION {[1..n -> DumpLines] : n \in 0..MaxLines}

\* SqlImportOptions without the path.
SqlImportOptions == [execute_in_transaction : BOOLEAN]

\* import_sql_dump spawns the import of a dump into a connection of the given
\* dialect; the database rejects the statement it is sent as the failing-th
\* one (0: none).
import_sql_dump(db_type, lines, options, failing) ==
    /\ call = NoCall
    /\ call' = [op |-> "import_sql_dump", db_type |-> db_type, lines |-> lines,
                options |-> options, failing |-> failing,
                scan |-> ScanStart, statements_executed |-> 0,
                applied |-> <<>>, emitted |-> <<>>, status |-> "reading"]
    /\ UNCHANGED <<regvars, streamvars>>

ImportingSql == call # NoCall /\ call.op = "import_sql_dump"

\* execute_statement on each of the statements in turn, from the state c of
\* the import: the pool runs every statement on its own, so one that succeeds
\* is applied for good; the first that fails ends the import, and the spawned
\* task reports the error.
RECURSIVE ExecuteAll(_, _)
ExecuteAll(c, statements) ==
    IF statements = <<>> THEN c
    ELSE IF c.statements_executed + 1 = c.failing
    THEN [c EXCEPT !.status = "error",
                   !.emitted = Append(@, Progress("error", 0))]
    ELSE LET n == c.statements_executed + 1
             ran == [c EXCEPT !.statements_executed = n,
                              !.applied = Append(@, Head(statements)),
                              !.emitted = IF n % ProgressEvery = 0
                                          THEN Append(@, Progress("processing", n))
                                          ELSE @]
         IN  ExecuteAll(ran, Tail(statements))

\* The import reads the next line of the dump and executes the statements
\* that end on it.
SqlReadLine ==
    /\ ImportingSql
    /\ call.status = "reading"
    /\ call.lines # <<>>
    /\ LET scanned == ScanLine([call.scan EXCEPT !.found = <<>>],
                               Head(call.lines), call.db_type)
           read == [call EXCEPT !.lines = Tail(@),
                                !.scan = [scanned EXCEPT !.found = <<>>]]
       IN  call' = ExecuteAll(read, scanned.found)
    /\ UNCHANGED <<regvars, streamvars>>

\* After the last line the import executes what is left and reports the end.
SqlExecuteRemaining ==
    /\ ImportingSql
    /\ call.status = "reading"
    /\ call.lines = <<>>
    /\ LET stmt == strip(call.scan.current_statement)
           ran == ExecuteAll(call, IF stmt # <<>> THEN <<stmt>> ELSE <<>>)
       IN  call' = IF ran.status = "error" THEN ran
                   ELSE [ran EXCEPT
                           !.status = "complete",
                           !.emitted = Append(@, Progress("complete",
                                                          ran.statements_executed))]
    /\ UNCHANGED <<regvars, streamvars>>

ImportSqlNext ==
    \/ \E db_type \in {"postgres", "mysql", "sqlite"}, lines \in Dumps,
          options \in SqlImportOptions, failing \in 0..MaxFailing :
          import_sql_dump(db_type, lines, options, failing)
    \/ SqlReadLine
    \/ SqlExecuteRemaining

ImportSqlSpec == Init /\ [][ImportSqlNext]_vars

\* ----------------------------------------------------------------- import_csv

\* AppHandle::emit of an import-progress event from the state c of the
\* import: the listener receives the event unless the emit fails.
Emit(c, event, emit_ok) ==
    IF emit_ok THEN [c EXCEPT !.emitted = Append(@, event)]
    ELSE [c EXCEPT !.lost = TRUE]

\* The spawned task of import_csv after do_import_csv returned an error: it
\* emits the error event and ignores whether that emit worked.
ReportError(c, error_emit_ok) ==
    Emit([c EXCEPT !.status = "returned"], Progress("error", 0), error_emit_ok)

\* rows_processed after a batch of len records was inserted.
Processed_BatchOnly(rows_processed, len) == len

Processed(rows_processed, len) == rows_processed + len

\* What the environment does to a step of the import: whether reading the
\* record, inserting the batch and emitting the events work.
CsvEnv ==
    [read_ok : BOOLEAN, insert_ok : BOOLEAN, emit_ok : BOOLEAN, error_emit_ok : BOOLEAN]

\* insert_batch of the len records of the batch in one transaction, then the
\* progress event.
InsertAndReport(c, len, status, env) ==
    IF ~env.insert_ok THEN ReportError(c, env.error_emit_ok)
    ELSE LET done == [c EXCEPT !.rows_processed = Processed(@, len),
                               !.inserted = @ + len,
                               !.batch_len = 0]
             sent == Emit(done, Progress(status, done.rows_processed), env.emit_ok)
         IN  IF ~env.emit_ok THEN ReportError(sent, env.error_emit_ok)
             ELSE IF status = "complete" THEN [sent EXCEPT !.status = "returned"]
             ELSE sent

\* import_csv spawns the import of a file of so many records; opening the
\* file, finding the pool, creating the table and reading the headers may
\* fail before the first record.
import_csv(records, size, setup_ok, error_emit_ok) ==
    /\ call = NoCall
    /\ LET begun == [op |-> "import_csv", records |-> records, batch_size |-> size,
                     batch_len |-> 0, rows_processed |-> 0, inserted |-> 0,
                     emitted |-> <<>>, lost |-> FALSE, status |-> "reading"]
       IN  call' = IF setup_ok THEN begun ELSE ReportError(begun, error_emit_ok)
    /\ UNCHANGED <<regvars, streamvars>>

ImportingCsv == call # NoCall /\ call.op = "import_csv"

\* One turn of the loop over reader.records().
CsvReadRecord(env) ==
    /\ ImportingCsv
    /\ call.status = "reading"
    /\ call.records > 0
    /\ LET pushed == [call EXCEPT !.records = @ - 1, !.batch_len = @ + 1]
       IN  call' = IF ~env.read_ok THEN ReportError(call, env.error_emit_ok)
                   ELSE IF pushed.batch_len >= call.batch_size
                   THEN InsertAndReport(pushed, pushed.batch_len, "processing", env)
                   ELSE pushed
    /\ UNCHANGED <<regvars, streamvars>>

\* After the last record: the rest of the batch, then the complete event.
CsvFinish(env) ==
    /\ ImportingCsv
    /\ call.status = "reading"
    /\ call.records = 0
    /\ call.batch_len = 0 => env.insert_ok
    /\ call' = InsertAndReport(call, call.batch_len, "complete", env)
    /\ UNCHANGED <<regvars, streamvars>>

ImportCsvNext ==
    \/ \E records \in 0..MaxRecords, size \in 0..MaxCsvBatch,
          setup_ok \in BOOLEAN, error_emit_ok \in BOOLEAN :
          import_csv(records, size, setup_ok, error_emit_ok)
    \/ \E env \in CsvEnv : CsvReadRecord(env)
    \/ \E env \in CsvEnv : CsvFinish(env)

ImportCsvSpec == Init /\ [][ImportCsvNext]_vars

\* ------------------------------------------------- properties of the registry

\* The six maps of ConnectionManager that hold entries keyed by connection id.
Holders(id) ==
    {n \in {"configs", "passwords", "postgres_pools", "mysql_pools", "sqlite_pools",
            "tunnels"} :
        id \in DOMAIN (CASE n = "configs" -> configs
                         [] n = "passwords" -> passwords
                         [] n = "postgres_pools" -> postgres_pools
                         [] n = "mysql_pools" -> mysql_pools
                         [] n = "sqlite_pools" -> sqlite_pools
                         [] n = "tunnels" -> tunnels)}

\* The pool registries that hold a pool for id.
PoolHolders(id) == Holders(id) \cap {"postgres_pools", "mysql_pools", "sqlite_pools"}

\* The pool an executor resolves for id: the Postgres registry is looked up
\* first, then MySQL, then SQLite.
ResolvePool(id) ==
    IF id \in DOMAIN postgres_pools THEN postgres_pools[id]
    ELSE IF id \in DOMAIN mysql_pools THEN mysql_pools[id]
    ELSE IF id \in DOMAIN sqlite_pools THEN sqlite_pools[id]
    ELSE NoPool

\* C1: once disconnect(id) has returned, none of configs, passwords, the three
\* pool registries and tunnels holds an entry for id.
C1_DisconnectRemovesEverything ==
    last.op = "disconnect" => Holders(last.id) = {}

\* C2: right after connect(id) has returned Ok, exactly one of the three pool
\* registries holds id.
C2_ExactlyOnePoolAfterConnect ==
    (last.op = "connect" /\ last.ok) => Cardinality(PoolHolders(last.id)) = 1

\* C8: a switch_database call that returns Err leaves configs, passwords, the
\* three pool registries and tunnels exactly as they were before the call.
C8_FailedSwitchChangesNothing ==
    [][(last'.op = "switch_database" /\ ~last'.ok) => UNCHANGED registry]_vars

\* C9: after a switch_database(id, d) call that returns Ok, the pool registered
\* for id is the pool the call built, configs[id] is the previous config with
\* only database changed to d, and passwords[id] is what it was.
C9_SwitchInstallsNewPool ==
    [][\A id \in ConnIds :
          (last'.op = "switch_database" /\ last'.ok /\ last'.id = id) =>
              /\ ResolvePool(id)' = last'.pool
              /\ configs'[id] = [configs[id] EXCEPT !.database = Some(last'.db)]
              /\ passwords'[id] = passwords[id]]_vars

\* C10: when test_connection has returned, on whatever path, the forwarder
\* task of the temporary tunnel it established has been aborted.
C10_TestTunnelAborted ==
    (last.op = "test_connection" /\ last.tunnel # 0) =>
        forwarders[last.tunnel] = "aborted"

C12_DisconnectIdempotent ==
    [][\A id \in ConnIds :
          (/\ last'.op = "disconnect" /\ last'.id = id
           /\ \/ (last.op = "disconnect" /\ last.id = id)
              \/ Holders(id) = {})
              => UNCHANGED <<registry, forwarders>>]_vars

\* C13 as stated: after a connect with ssh_enabled has returned Ok, tunnels
\* holds the id, whatever the dialect.
C13_TunnelRegisteredEveryDialect ==
    (last.op = "connect" /\ last.ok /\ configs[last.id].ssh_enabled) =>
        last.id \in DOMAIN tunnels

\* C13: after a connect of a Postgres or MySQL config with ssh_enabled has
\* returned Ok, tunnels holds for the id the tunnel the new pool goes through;
\* a connect of a SQLite config establishes no tunnel and leaves tunnels as
\* it was.
C13_TunnelRegisteredUnlessSqlite ==
    [][\A id \in ConnIds :
          (last'.op = "connect" /\ last'.ok /\ last'.id = id /\ configs'[id].ssh_enabled) =>
              IF configs'[id].db_type = "Sqlite"
              THEN UNCHANGED <<tunnels, forwarders>>
              ELSE /\ id \in DOMAIN tunnels'
                   /\ tunnels'[id].local_port = last'.pool.port
                   /\ forwarders'[tunnels'[id].task_handle] = "running"]_vars

\* A connect of a Postgres config through a tunnel has returned Ok, replacing
\* an earlier tunnel of the id.
C13_Witness ==
    /\ last.op = "connect" /\ last.ok
    /\ configs[last.id].ssh_enabled /\ configs[last.id].db_type = "Postgres"
    /\ last.id \in DOMAIN tunnels
    /\ tunnels[last.id].task_handle = 2

\* C27: between two registry commands, tunnels holds an entry for id only
\* if a pool registry holds one; a connect that returned an error for want
\* of a pool has therefore left no tunnel registered for its id.
C27_TunnelOnlyWithPool == \A id \in DOMAIN tunnels : PoolHolders(id) # {}

\* C29: the forwarder of an SSH-enabled connection stops after disconnect,
\* for which disconnect has to abort it: when disconnect(id) returns, the
\* forwarder task that tunnels[id] referred to has been aborted.
C29_DisconnectAbortsForwarder ==
    [][\A id \in ConnIds :
          (last'.op = "disconnect" /\ last'.id = id /\ id \in DOMAIN tunnels) =>
              forwarders'[tunnels[id].task_handle] = "aborted"]_vars

\* C33: every forwarder task that was started and not aborted is the one
\* tunnels refers to for some id, so that no id has a second live forwarder.
C33_LiveForwarderIsRegistered ==
    \A k \in DOMAIN forwarders :
        forwarders[k] = "running" =>
            \E id \in DOMAIN tunnels : tunnels[id].task_handle = k

\* The pool is one that connect_<dialect> builds from the config: of its
\* dialect, on its database, and reached at its host or through a tunnel.
BuiltFrom(pool, config) ==
    /\ pool.db_type = config.db_type
    /\ pool.database = UnwrapOr(config.database, pool.database)
    /\ config.db_type # "Sqlite" =>
          pool.host = IF config.ssh_enabled THEN "127.0.0.1"
                      ELSE UnwrapOr(config.host, "localhost")

\* C34: whenever a pool is registered for id, configs and passwords hold the
\* config and the password the pool was built from.
C34_StoredConfigIsThePoolsConfig ==
    \A id \in ConnIds :
        \A pools \in {postgres_pools, mysql_pools, sqlite_pools} :
            id \in DOMAIN pools =>
                /\ id \in DOMAIN configs
                /\ id \in DOMAIN passwords
                /\ BuiltFrom(pools[id], configs[id])
                /\ passwords[id] \in PasswordsFor([db_type |-> pools[id].db_type])

\* The local ends of the tunnels established so far.
TunnelEnds == {Some(LocalPort(k)) : k \in 1..Len(forwarders)}

\* C25: no step stores the tunnel's local end (127.0.0.1, local_port) in
\* configs, and switch_database leaves the stored host and port as they
\* were: the config keeps the remote database address the caller gave.
C25_StoredConfigKeepsRemoteAddress ==
    [][\A id \in DOMAIN configs' :
          /\ configs'[id].host # Some("127.0.0.1")
          /\ configs'[id].port \notin TunnelEnds'
          /\ (last'.op = "switch_database" /\ id \in DOMAIN configs) =>
                /\ configs'[id].host = configs[id].host
                /\ configs'[id].port = configs[id].port]_vars

\* switch_database succeeded on a connection that runs through a tunnel.
C25_Witness ==
    /\ last.op = "switch_database"
    /\ last.ok
    /\ last.id \in DOMAIN tunnels
    /\ last.id \in DOMAIN configs
    /\ configs[last.id].ssh_enabled
    /\ configs[last.id].database = Some(last.db)

\* ------------------------------------------- properties of streaming queries

\* Positions in what the sink received for q that hold an event of type t.
At(q, t) == {i \in DOMAIN events[q] : events[q][i].type = t}

\* Positions of q's terminal events.
Terminal(q) == At(q, "query-complete") \cup At(q, "query-error")

\* Every query-batch of q comes after a query-metadata of q.
MetadataFirst(q) ==
    \A i \in At(q, "query-batch") : \E j \in At(q, "query-metadata") : j < i

RECURSIVE RowsOf(_)
\* The rows of a sequence of events, in the order the sink received them.
RowsOf(evs) == IF evs = <<>> THEN <<>> ELSE Head(evs).rows \o RowsOf(Tail(evs))

\* The task of q has returned from QueryEngine::execute_query_streaming and
\* emitted what it emits for the result.
Ended(q) == pc[q] \in {"cleanup", "done"}

\* q is in its fetch loop, has emitted a batch and no terminal event.
Streaming(q) ==
    /\ pc[q] \in {"next", "row"}
    /\ At(q, "query-batch") # {}
    /\ Terminal(q) = {}

\* C3: once cancel_query(q) has returned, the sink receives no query-complete
\* of q any more.
C3_NoCompleteAfterCancel ==
    \A q \in QueryIds :
        cancel_at[q] >= 0 =>
            \A i \in At(q, "query-complete") : i <= cancel_at[q]

\* C4 as stated: a query that ended with query-complete emitted exactly one
\* query-metadata, and before every query-batch.
C4_ExactlyOneMetadata ==
    \A q \in QueryIds :
        At(q, "query-complete") # {} =>
            /\ Cardinality(At(q, "query-metadata")) = 1
            /\ MetadataFirst(q)

\* C4: a query that ended with query-complete and fetched at least one row
\* emitted exactly one query-metadata, and before every query-batch; one that
\* completed with no row emitted neither query-metadata nor query-batch.
C4_OneMetadataWhenRows ==
    \A q \in QueryIds :
        \A i \in At(q, "query-complete") :
            IF events[q][i].total_rows > 0
            THEN /\ Cardinality(At(q, "query-metadata")) = 1
                 /\ MetadataFirst(q)
            ELSE /\ At(q, "query-metadata") = {}
                 /\ At(q, "query-batch") = {}

\* A query completed after a full and a partial batch.
C4_Witness ==
    \E q \in QueryIds :
        /\ At(q, "query-complete") # {}
        /\ Cardinality(At(q, "query-batch")) >= 2
        /\ At(q, "query-metadata") # {}

C6_BatchesPartitionRows ==
    \A q \in QueryIds :
        LET rows == RowsOf(events[q])
        IN  /\ \A i \in At(q, "query-batch") :
                  /\ Len(events[q][i].rows) >= 1
                  /\ Len(events[q][i].rows) <= batch_size
            /\ rows = [k \in 1..Len(rows) |-> k]
            /\ \A i \in At(q, "query-complete") : events[q][i].total_rows = Len(rows)

\* A query completed after a full batch followed by a partial one.
C6_Witness ==
    \E q \in QueryIds :
        /\ At(q, "query-complete") # {}
        /\ \E i \in At(q, "query-batch"), j \in At(q, "query-batch") :
              /\ i < j
              /\ Len(events[q][i].rows) = batch_size
              /\ Len(events[q][j].rows) < batch_size

\* C7: while a query streams on a connection id, a second query on the same
\* connection id is not held up: whichever registry it has to look at next,
\* it can lock it.
C7_SecondQueryNotBlocked ==
    \A q1 \in QueryIds, q2 \in QueryIds :
        (/\ q1 # q2
         /\ conn[q1] = conn[q2]
         /\ Streaming(q1)
         /\ pc[q2] \in {Dialects[i] : i \in 1..Len(Dialects)})
            => \E i \in 1..Len(Dialects) : ENABLED Resolve(q2, i)

\* No two queries on one connection id are ever streaming at the same time:
\* the state C7 asks for is not reachable.
StreamsSerialised ==
    \A q1 \in QueryIds, q2 \in QueryIds :
        (q1 # q2 /\ conn[q1] = conn[q2]) => ~(Streaming(q1) /\ Streaming(q2))

\* C14: every query_id put into active_queries is taken out again, so that
\* active_queries ends up empty for good (each query_id is issued once); a
\* query_id is out once cancel_query has returned and once its task has ended.
C14_ActiveQueriesDrained ==
    /\ <>[](active_queries = {})
    /\ [](\A q \in QueryIds : cancel_at[q] >= 0 => q \notin active_queries)
    /\ [](\A q \in QueryIds : pc[q] = "done" => q \notin active_queries)

\* One query has ended on its own and another after it was cancelled in its
\* fetch loop; active_queries is empty.
C14_Witness ==
    \E q1 \in QueryIds, q2 \in QueryIds :
        /\ pc[q1] = "done" /\ cancel_at[q1] = -1 /\ At(q1, "query-complete") # {}
        /\ pc[q2] = "done" /\ token[q2] /\ At(q2, "query-batch") # {}
        /\ active_queries = {}

\* Positions of the events of type t the sink received for q after
\* cancel_query(q) had returned.
AfterCancel(q, t) == {i \in At(q, t) : i > cancel_at[q]}

\* C15: once cancel_query(q) has returned, the sink receives at most one more
\* query-batch of q.
C15_OneBatchAfterCancel ==
    \A q \in QueryIds :
        cancel_at[q] >= 0 => Cardinality(AfterCancel(q, "query-batch")) <= 1

\* A query was cancelled while a row was in flight: the batch that row filled
\* arrived after the cancel and the next look at the token ended the query.
C15_Witness ==
    \E q \in QueryIds :
        /\ cancel_at[q] >= 0 /\ token[q] /\ pc[q] = "done"
        /\ AfterCancel(q, "query-batch") # {}
        /\ Terminal(q) = {}

\* No pool registry holds connection id c.
Unregistered(c) ==
    /\ c \notin DOMAIN postgres_pools
    /\ c \notin DOMAIN mysql_pools
    /\ c \notin DOMAIN sqlite_pools

\* C16: a streaming query on a connection id that no pool registry holds has
\* returned Ok to the caller, emits nothing but query-error, and has emitted
\* exactly one query-error when its task has ended.
C16_UnknownConnectionOneError ==
    \A q \in QueryIds :
        (pc[q] # "idle" /\ Unregistered(conn[q])) =>
            /\ At(q, "query-error") = DOMAIN events[q]
            /\ Len(events[q]) <= 1
            /\ Ended(q) => Len(events[q]) = 1

\* A query on an unregistered connection id has ended with its query-error
\* while a query on a registered one was streaming.
C16_Witness ==
    \E q1 \in QueryIds, q2 \in QueryIds :
        /\ pc[q1] = "done" /\ Unregistered(conn[q1])
        /\ At(q1, "query-error") = {1}
        /\ Streaming(q2)

\* C26: a streaming task that waits for the next row of its cursor, or that
\* has a row in hand to emit and sleep after, holds no pool-registry lock.
C26_NoRegistryLockWhileWaiting ==
    \A q \in QueryIds : pc[q] \in {"next", "row"} => held[q] = "none"

\* ---------------------------------------------------- properties of execute_query

\* The statement starts with SELECT, in whatever case, after white space.
IsSelect(sql) == \E i \in DOMAIN sql :
    /\ sql[i] \in {"SELECT", "select", "Select"}
    /\ \A j \in 1..(i - 1) : sql[j] = " "

\* The last call was execute_query with a page and a page_size.
PagedCall == call.op = "execute_query" /\ call.page # None /\ call.page_size # None

\* Rows from + 1 .. to of the full result of n rows.
Slice(n, from, to) == [i \in 1..(IF to > from THEN to - from ELSE 0) |-> from + i]

\* C17 as stated: execute_query with page p and page_size k returns at most k
\* rows, whatever the statement.
C17_AtMostPageSizeRows ==
    (PagedCall /\ call.ok) => Len(call.rows) <= call.page_size[1]

\* C17: execute_query with page p and page_size k > 0 returns at most k rows
\* of a statement that starts with SELECT; with page_size 0, and for a
\* statement that does not start with SELECT, it returns the full result.
C17_AtMostPageSizeRowsOfSelect ==
    (PagedCall /\ call.ok) =>
        IF call.page_size[1] > 0 /\ IsSelect(call.sql)
        THEN Len(call.rows) <= call.page_size[1]
        ELSE call.rows = AllRows(call.n)

\* Page 1 of size 2 of a SELECT with five rows came back as rows 3 and 4.
C17_Witness ==
    /\ PagedCall /\ call.ok /\ IsSelect(call.sql)
    /\ call.page = Some(1) /\ call.page_size = Some(2) /\ call.n = 5
    /\ call.rows = <<3, 4>>

\* C18: page p of size k > 0 of a SELECT with n rows is rows p*k up to
\* min((p+1)*k, n) of the full result.
C18_PageIsSliceOfResult ==
    (PagedCall /\ call.page_size[1] > 0 /\ IsSelect(call.sql)) =>
        LET p == call.page[1]
            k == call.page_size[1]
            to == IF (p + 1) * k < call.n THEN (p + 1) * k ELSE call.n
        IN  /\ call.ok
            /\ call.rows = Slice(call.n, p * k, to)

\* C31: for a SELECT with page p and page_size k > 0, execute_query returns
\* and the statement it runs is the wrapped one with LIMIT k and OFFSET the
\* product p * k itself.
C31_OffsetIsExactProduct ==
    (PagedCall /\ call.page_size[1] > 0 /\ IsSelect(call.sql)) =>
        /\ call.ok
        /\ call.final_sql.wrapped
        /\ call.final_sql.limit = call.page_size[1]
        /\ call.final_sql.offset = call.page[1] * call.page_size[1]

\* ------------------------------------------------ properties of execute_mutations

RECURSIVE SumAffected(_)
SumAffected(statements) ==
    IF statements = <<>> THEN 0
    ELSE Head(statements).rows_affected + SumAffected(Tail(statements))

\* C19: execute_mutations on a registered connection hands the statements to
\* the database in list order; with a failing statement it returns the error
\* of the first one and has executed nothing after it, and with none it
\* returns the sum of rows_affected of all statements.
C19_MutationsInOrderStopAtError ==
    (call.op = "execute_mutations" /\ ~Unregistered(call.connection_id)) =>
        IF Failing(call.statements) = {}
        THEN /\ call.ok
             /\ call.executed = [k \in 1..Len(call.statements) |-> k]
             /\ call.total_affected = SumAffected(call.statements)
        ELSE /\ ~call.ok
             /\ call.error = Least(Failing(call.statements))
             /\ call.executed = [k \in 1..call.error |-> k]

\* Three statements of which the second failed and the third would have: the
\* call returned the error of the second after it had executed two.
C19_Witness ==
    /\ call.op = "execute_mutations" /\ ~Unregistered(call.connection_id)
    /\ Len(call.statements) = 3
    /\ Failing(call.statements) = {2, 3}
    /\ ~call.ok /\ call.error = 2 /\ call.executed = <<1, 2>>

\* ---------------------------------------------- properties of build_where_clause

\* The last call was build_where_clause.
WhereCall == call.op = "build_where_clause"

\* The filter's condition carries its value in a quoted literal.
HasLiteral(f) == f.operator \notin {"IN", "IS NULL", "IS NOT NULL"}

\* The enabled filters of the last call.
EnabledFilters == SelectSeq(call.filters, IsEnabled)

RECURSIVE ExpectedKinds(_)
\* The kinds of token the conditions of the filters are meant to be read as:
\* identifier, operator and, where there is a literal, one string, with an
\* AND between two conditions.
ExpectedKinds(filters) ==
    IF filters = <<>> THEN <<>>
    ELSE (IF HasLiteral(Head(filters)) THEN <<"ident", "sql", "string">>
          ELSE <<"ident", "sql">>)
         \o (IF Tail(filters) # <<>> THEN <<"sql">> ELSE <<>>)
         \o ExpectedKinds(Tail(filters))

IsString(tok) == tok.kind = "string"

\* The content of a literal without the LIKE wildcard at either end.
StripWildcards(t) ==
    LET front == IF t # <<>> /\ Head(t) = "%" THEN Tail(t) ELSE t
    IN  IF front # <<>> /\ front[Len(front)] = "%"
        THEN SubSeq(front, 1, Len(front) - 1)
        ELSE front

\* C20: in a clause of filters with quoted literals, the database reads each
\* condition as identifier, operator and one string literal whose content is
\* the filter's value: no value ends its literal early or runs past its end.
C20_ValueStaysInsideLiteral ==
    (/\ WhereCall
     /\ EnabledFilters # <<>>
     /\ \A i \in DOMAIN EnabledFilters : EnabledFilters[i].operator # "IN") =>
        LET tokens == ReadSql(call.clause, 1, call.db_type, <<>>)
            strings == SelectSeq(tokens, IsString)
            literals == SelectSeq(EnabledFilters, HasLiteral)
        IN  /\ [i \in DOMAIN tokens |-> tokens[i].kind]
                  = <<"sql">> \o ExpectedKinds(EnabledFilters)
            /\ [i \in DOMAIN strings |-> StripWildcards(strings[i].text)]
                  = [i \in DOMAIN literals |-> literals[i].value]

\* The filters of a list whose enabled flag is set.
Kept(filters) == SelectSeq(filters, LAMBDA f : f.enabled)

\* C21: the clause is the clause of the enabled filters alone, so a disabled
\* filter adds nothing to it; with no enabled filter it is the empty string,
\* and a clause that is not empty never ends in the WHERE keyword.
C21_OnlyEnabledFiltersContribute ==
    WhereCall =>
        /\ call.clause = build_where_clause(Kept(call.filters), call.db_type)
        /\ Kept(call.filters) = <<>> => call.clause = <<>>
        /\ call.clause # <<>> =>
              /\ Len(call.clause) > 1
              /\ call.clause[Len(call.clause)] # "WHERE"

\* A clause was built from a list with a disabled filter next to an enabled one.
C21_Witness ==
    /\ WhereCall
    /\ Len(call.filters) = 2
    /\ Len(Kept(call.filters)) = 1
    /\ call.clause # <<>>

\* C32: the clause of one enabled ILIKE filter is the quoted column, ILIKE
\* on Postgres and LIKE on MySQL and SQLite, and the value between single
\* quotes with its single quotes doubled and nothing else.
C32_IlikeLiteralIsValue ==
    (/\ WhereCall
     /\ Len(call.filters) = 1
     /\ call.filters[1].enabled
     /\ call.filters[1].operator = "ILIKE") =>
        call.clause =
            <<"WHERE">> \o QuotedCol(call.filters[1].column, call.db_type)
              \o <<IF call.db_type = "postgres" THEN "ILIKE" ELSE "LIKE">>
              \o <<Apostrophe>>
              \o replace(call.filters[1].value, Apostrophe, <<Apostrophe, Apostrophe>>)
              \o <<Apostrophe>>

\* ------------------------------------------------ properties of the value mappers

\* The last call mapped a row.
MapCall == call.op = "row_to_values"

\* C22: a raw value that is not null is never mapped to JSON null, and a
\* value that none of the probed Rust types decodes is mapped to a string.
C22_NonNullNeverMapsToNull ==
    MapCall =>
        \A i \in DOMAIN call.row :
            ~call.row[i].is_null =>
                /\ call.values[i] # Null
                /\ call.row[i].decodes = {} => call.values[i].kind = "string"

\* C23: a column whose type name is one of the text family and whose value
\* is the string s, not null, is mapped to the JSON string s.
C23_TextEmittedUnmodified ==
    MapCall =>
        \A i \in DOMAIN call.row :
            (~call.row[i].is_null /\ type_name_is_text(call.row[i].type_name)) =>
                call.values[i] = String(call.row[i].s)

\* ------------------------------------- properties of the detecting commands

\* C24: a command that has detected the dialect of its connection never
\* panics, whatever disconnect and switch_database do in the meantime: when
\* the pool is gone at the lookup it ends with the not-connected error.
C24_NoPanicWhenPoolVanishes ==
    (call # NoCall /\ call.op \in DetectingCommands) => call.state # "panicked"

\* --------------------------------------------- properties of the forwarder

\* C28: whenever the sub-worker is about to read the local socket again,
\* the channel has been given every byte read so far, in order.
C28_ChunkWrittenBeforeNextRead ==
    (Forwarding /\ call.worker = "read") => call.sent = Bytes(1, call.read)

\* C30: no listener error, failure to open a channel or sub-worker error ends
\* the accept loop: it goes on accepting.
C30_AcceptLoopSurvivesErrors == Forwarding => call.loop = "accepting"

\* After a failed iteration and with the sub-worker ended on an error, a
\* local connection was accepted and given a channel.
C30_Witness ==
    /\ Forwarding
    /\ call.failures > 0
    /\ call.worker = "ended"
    /\ call.outcome = "channel"
    /\ call.workers > 1

\* ------------------------------- properties of connect and disconnect interleaved

\* C35: once a connect and a disconnect of the same id that ran at the same
\* time have both returned, a pool registry holds the id only if configs
\* holds it.
C35_NoPoolWithoutConfig ==
    (Racing /\ call.connect = "returned" /\ call.disconnect = "returned") =>
        \A id \in ConnIds : PoolHolders(id) # {} => id \in DOMAIN configs

\* ------------------------------------------------------ properties of the locks

\* C36: no operation holds two of the locks at once, and as long as an
\* operation has steps left some operation can take a step: none waits for
\* a lock that is never released.
C36_OneLockAtATimeNoDeadlock ==
    Locking =>
        /\ \A t \in Tasks : Cardinality(Held(t)) <= 1
        /\ (\E t \in Tasks : Unfinished(t)) => \E t \in Tasks : CanStep(t)

\* A streaming task holds the Postgres registry while a connect waits for it.
C36_Witness ==
    /\ Locking
    /\ Held(1) = {"postgres_pools"}
    /\ Unfinished(2)
    /\ call.steps[2][call.pc[2]] = [do |-> "acquire", lock |-> "postgres_pools"]
    /\ call.steps[1][1].lock = "active_queries"
    /\ call.steps[2][1].lock = "configs"

\* --------------------------------------------- properties of import_sql_dump

\* C37: when the options ask for a transaction and a statement of the dump
\* fails, none of the statements before it remains applied.
C37_FailedImportAppliesNothing ==
    (ImportingSql /\ call.options.execute_in_transaction /\ call.status = "error")
        => call.applied = <<>>

\* C38: a statement ends only at a ';' outside a quoted string, and a line
\* that lies inside a quoted string is kept: all of its characters and its
\* line end are added to the statement being collected, whatever the line
\* begins with.
C38_LineInsideStringIsKept ==
    [][(/\ ImportingSql
        /\ call.status = "reading"
        /\ call.lines # <<>>
        /\ call.scan.in_string
        /\ \A i \in 1..Len(Head(call.lines)) :
              Head(call.lines)[i] # call.scan.quote_char)
        => /\ call'.status = "reading"
           /\ call'.scan.in_string
           /\ call'.scan.current_statement =
                 call.scan.current_statement \o Head(call.lines) \o <<Newline>>]_vars

\* -------------------------------------------------- properties of import_csv

\* All events before the last are processing events, and the processing
\* events carry strictly increasing rows_processed.
ProcessingThenAtMostOneTerminal ==
    /\ \A i \in 1..(Len(call.emitted) - 1) : call.emitted[i].status = "processing"
    /\ \A i, j \in 1..Len(call.emitted) :
          (/\ i < j
           /\ call.emitted[i].status = "processing"
           /\ call.emitted[j].status = "processing")
              => call.emitted[i].rows_processed < call.emitted[j].rows_processed

\* The last event is a terminal one.
EndsWithTerminal ==
    /\ call.emitted # <<>>
    /\ call.emitted[Len(call.emitted)].status \in {"complete", "error"}

\* A complete event reports the number of records inserted.
CompleteCountsInserted ==
    \A i \in 1..Len(call.emitted) :
        call.emitted[i].status = "complete"
            => call.emitted[i].rows_processed = call.inserted

====
